---- MODULE Spec2Model ----
(***************************************************************************)
(* A model of the nanobrowser step orchestrator (Executor) and of the JSON *)
(* validation pipeline (JSONValidationWorker).                             *)
(*                                                                         *)
(* The Executor is modelled at the granularity of its suspension points:   *)
(* one action runs the code from one await of an external call to the      *)
(* next one.  User commands (cancel, pause, resume) interleave only at     *)
(* those points, as they do on the single JavaScript thread.               *)
(***************************************************************************)
EXTENDS Integers, Sequences, FiniteSets, TLC

(* ------------------------------ bounds -------------------------------- *)
\* options.maxSteps of the runs of Spec
MaxSteps == 2
\* options.maxSteps of the run of SpecLong
LongSteps == 4
\* largest options.maxFailures a run is configured with
MaxFailuresBound == 2
\* largest options.planningInterval a run is configured with
MaxInterval == 2
\* options.maxSteps of the runs of SpecOverlap
OverlapSteps == 1
\* number of execute() calls made on one executor
MaxRuns == 2
\* number of pause commands issued to one executor
MaxPauses == 1

(* ------------------------- program constants -------------------------- *)
MAX_REPETITIVE_ACTIONS == 3

taskId == "task-1"

\* lastPlannerOutput = null
NoOutput == "<null>"

Urls == {"u1", "u2"}

(* ------------------------------ state --------------------------------- *)
VARIABLES
    options,                \* context.options: maxSteps, maxFailures, planningInterval
    pc,                     \* suspension point execute() is waiting at
    step,                   \* loop variable of execute()
    nSteps,                 \* context.nSteps
    consecutiveFailures,    \* context.consecutiveFailures
    stopped,                \* context.stopped
    paused,                 \* context.paused
    navigatorDone,          \* local of execute()
    latestPlanOutput,       \* local of execute()
    finalAnswer,            \* context.finalAnswer ("" when unset)
    lastPlannerOutput,      \* Executor.lastPlannerOutput
    repetitiveActionCount,  \* Executor.repetitiveActionCount
    url,                    \* fingerprint of the browser state
    beforeUrl,              \* local of navigate()
    navOutput,              \* local of navigate(): the navigator's output
    events,                 \* TASK_* lifecycle events emitted by the current run
    runs,                   \* execute() calls started so far
    runLimit,               \* execute() calls the side panel makes on this executor
    pauses,                 \* pause commands issued so far
    plannerCalls,           \* planner.execute() calls started in the current run
    navCalls,               \* navigator.execute() calls started in the current run
    lastNav,                \* what the navigate() of the latest cycle met
    skipped,                \* cycles of the current run whose navigator call was skipped
    plannerErr,             \* error thrown by the latest planner.execute(), or "none"
    cancelSeen,             \* cancel() arrived before the terminal event of the current run
    streak,                 \* consecutive planner results with one next_steps text
    generalSettings,        \* Executor.generalSettings: replayHistoricalTasks
    stores,                 \* storeAgentStepHistory calls made by the current run
    storedAfter,            \* state of the last event emitted before that call
    currentExecutor,        \* index.ts: currentExecutor refers to this executor
    released,               \* browserContext.cleanup() called since the run's last event
    cleaning,               \* a subscriber callback is awaiting cleanup()
    other,                  \* a second execute() call in progress on the executor
    rawResponse,            \* validateResponse: the response text
    expectedType,           \* validateResponse: 'planner', 'navigator' or 'auto'
    context,                \* validateResponse: the caller's context string
    validation,             \* the ValidationResult once validateResponse has returned
    modelOutput,            \* what BaseAgent.invoke returned on its manual path
    fixed,                  \* fixInvalidJSON applied to a record once, and twice
    actions,                \* validateActions: its argument
    actionsResult,          \* validateActions: what it returned
    jsonMonitor,            \* JSONResponseMonitor: its counters and its switch
    monitorCall,            \* monitorResponse calls made, and what the latest one met
    agent,                  \* BaseAgent: id, provider, modelName, withStructuredOutput
    invoked,                \* invoke() calls made on the agent, and what the latest one did
    currentRef,             \* index.ts: the executor currentExecutor refers to (0 for null)
    executors,              \* index.ts: the executors set up by new_task and replay
    cleared,                \* index.ts: who set currentExecutor to null, and what it referred to
    g4f                     \* fetchG4FModels: its locals, and what it did and returned

vars == <<options, pc, step, nSteps, consecutiveFailures, stopped, paused,
          navigatorDone, latestPlanOutput, finalAnswer, lastPlannerOutput,
          repetitiveActionCount, url, beforeUrl, navOutput, events, runs,
          runLimit, pauses, plannerCalls, navCalls, lastNav, skipped, plannerErr,
          cancelSeen, streak, generalSettings, stores, storedAfter,
          currentExecutor, released, cleaning, other, rawResponse, expectedType,
          context, validation, modelOutput, fixed, actions, actionsResult,
          jsonMonitor, monitorCall, agent, invoked, currentRef, executors,
          cleared, g4f>>

\* the variables of the JSON validation worker
actionVars == <<actions, actionsResult>>

monitorVars == <<jsonMonitor, monitorCall>>

agentVars == <<agent, invoked>>

\* the executors the port listener of index.ts has set up
portVars == <<currentRef, executors, cleared>>

\* the state outside the executor and the validation worker
outerVars == <<portVars, g4f>>

pipeVars ==
    <<rawResponse, expectedType, context, validation, modelOutput, fixed,
      actionVars, monitorVars, agentVars>>

(* ------------------------- planner outputs ---------------------------- *)
\* what the reasoning service does with one planner request
PlannerResults ==
    [kind : {"result"}, err : {"none"}, next_steps : {"", "a"},
     observation : {"", "b"}, done : BOOLEAN, final_answer : {"", "ans"}]

PlanRecord(k, e) ==
    [kind |-> k, err |-> e, next_steps |-> "", observation |-> "",
     done |-> FALSE, final_answer |-> ""]

NullPlan == PlanRecord("null", "none")

\* the errors BaseAgent.invoke raises for the planner
PlannerFailures ==
    {PlanRecord("thrown", e) : e \in {"auth", "forbidden", "aborted", "other"}}

\* PlannerAgent.execute: a result, an error output, or a rethrown fatal error
PlannerExecute(o) ==
    IF o.kind = "result" THEN o
    ELSE IF o.err \in {"auth", "forbidden", "aborted"} THEN PlanRecord("throw", o.err)
    ELSE PlanRecord("error", "none")

\* a || b on strings
OrElse(a, b) == IF a # "" THEN a ELSE b

PlannerSignature(r) == OrElse(r.next_steps, OrElse(r.observation, ""))

forceCompletionPlan ==
    [kind |-> "result", err |-> "none",
     next_steps |-> "Task completed due to loop prevention",
     observation |-> "Detected repetitive behavior - completing task to prevent infinite loop",
     done |-> TRUE,
     final_answer |-> "Task stopped to prevent infinite execution loop"]

\* a runPlanner without the repetition guard
RunPlannerUnguarded(planOutput, last, count) ==
    IF planOutput.kind = "throw"
    THEN [out |-> NullPlan, last |-> last, count |-> count]
    ELSE [out |-> planOutput, last |-> last, count |-> count]

\* a runPlanner that forgets the stored signature when the planner fails
RunPlannerResetsOnFailure(planOutput, last, count) ==
    IF planOutput.kind = "throw"
    THEN [out |-> NullPlan, last |-> NoOutput, count |-> 0]
    ELSE IF planOutput.kind = "result"
    THEN LET cur == PlannerSignature(planOutput) IN
         IF last # NoOutput /\ last # "" /\ last = cur
         THEN IF count + 1 >= MAX_REPETITIVE_ACTIONS
              THEN [out |-> forceCompletionPlan, last |-> last, count |-> count + 1]
              ELSE [out |-> planOutput, last |-> last, count |-> count + 1]
         ELSE [out |-> planOutput, last |-> cur, count |-> 0]
    ELSE [out |-> planOutput, last |-> NoOutput, count |-> 0]

\* a runPlanner that keeps the count when the signature changes
RunPlannerNoReset(planOutput, last, count) ==
    IF planOutput.kind = "throw"
    THEN [out |-> NullPlan, last |-> last, count |-> count]
    ELSE IF planOutput.kind = "result"
    THEN LET cur == PlannerSignature(planOutput) IN
         IF last # NoOutput /\ last # "" /\ last = cur
         THEN IF count + 1 >= MAX_REPETITIVE_ACTIONS
              THEN [out |-> forceCompletionPlan, last |-> last, count |-> count + 1]
              ELSE [out |-> planOutput, last |-> last, count |-> count + 1]
         ELSE [out |-> planOutput, last |-> cur, count |-> count]
    ELSE [out |-> planOutput, last |-> last, count |-> count]

\* a runPlanner that compares with the stored signature whenever there is one
RunPlannerCountsEmpty(planOutput, last, count) ==
    IF planOutput.kind = "throw"
    THEN [out |-> NullPlan, last |-> last, count |-> count]
    ELSE IF planOutput.kind = "result"
    THEN LET cur == PlannerSignature(planOutput) IN
         IF last # NoOutput /\ last = cur
         THEN IF count + 1 >= MAX_REPETITIVE_ACTIONS
              THEN [out |-> forceCompletionPlan, last |-> last, count |-> count + 1]
              ELSE [out |-> planOutput, last |-> last, count |-> count + 1]
         ELSE [out |-> planOutput, last |-> cur, count |-> 0]
    ELSE [out |-> planOutput, last |-> last, count |-> count]

\* Executor.runPlanner after planner.execute() has settled: the value it
\* returns and the repetition state it leaves
RunPlanner(planOutput, last, count) ==
    IF planOutput.kind = "throw"
    THEN [out |-> NullPlan, last |-> last, count |-> count]
    ELSE IF planOutput.kind = "result"
    THEN LET cur == PlannerSignature(planOutput) IN
         IF last # NoOutput /\ last # "" /\ last = cur
         THEN IF count + 1 >= MAX_REPETITIVE_ACTIONS
              THEN [out |-> forceCompletionPlan, last |-> last, count |-> count + 1]
              ELSE [out |-> planOutput, last |-> last, count |-> count + 1]
         ELSE [out |-> planOutput, last |-> cur, count |-> 0]
    ELSE [out |-> planOutput, last |-> last, count |-> count]

\* Executor.checkTaskCompletion
CheckTaskCompletion(planOutput) == planOutput.kind = "result" /\ planOutput.done

\* context.finalAnswer after checkTaskCompletion
FinalAnswerAfter(planOutput, fa) ==
    IF CheckTaskCompletion(planOutput) /\ planOutput.final_answer # ""
    THEN planOutput.final_answer ELSE fa

(* ---------------------- JSON validation worker ------------------------ *)
\* JSON values, by type: a missing key, null, booleans, numbers, strings, the
\* agent brain object (whole, or lacking next_goal), arrays (empty, of a
\* go_to_url action object, of a number, of one object with the two keys
\* go_to_url and click_element)
Absent == "absent"

JsonValues ==
    {"absent", "null", "true", "false", "0", "5", "''", "'x'", "'true'",
     "brain", "partialBrain", "[]", "[a]", "[5]", "[ab]"}

IsString(v) == v \in {"''", "'x'", "'true'"}

IsBoolean(v) == v \in {"true", "false"}

\* JavaScript truthiness, for a || b
Truthy(v) == v \notin {"absent", "null", "false", "0", "''"}

\* for a ?? b
Nullish(v) == v \in {"absent", "null"}

PlannerFields ==
    {"observation", "done", "challenges", "next_steps", "final_answer",
     "reasoning", "web_task"}

NavigatorFields == {"current_state", "action"}

\* the key of the monitor's bypass record
OtherFields == {"bypass"}

Fields == PlannerFields \cup NavigatorFields \cup OtherFields

EmptyObject == [f \in Fields |-> Absent]

\* a field of a ValidationResult that is not set
Undefined == [f \in Fields |-> "undefined"]

\* plannerSchema
PlannerSchema(data) ==
    /\ IsString(data["observation"])
    /\ IsBoolean(data["done"])
    /\ IsString(data["challenges"])
    /\ IsString(data["next_steps"])
    /\ IsString(data["final_answer"]) \/ data["final_answer"] = "null"
    /\ IsString(data["reasoning"])
    /\ IsBoolean(data["web_task"]) \/ IsString(data["web_task"])

\* agentBrainSchema: evaluation_previous_goal, memory and next_goal, all strings
AgentBrainSchema(v) == v = "brain"

\* navigatorSchema
NavigatorSchema(data) ==
    /\ AgentBrainSchema(data["current_state"])
    /\ data["action"] \in {"[]", "[a]", "[ab]"}

\* validateAgainstSchema
ValidateAgainstSchema(data, agentType) ==
    IF agentType = "planner" THEN PlannerSchema(data)
    ELSE IF agentType = "navigator" THEN NavigatorSchema(data)
    ELSE FALSE

\* { ...defaults, ...data }: the keys of data override
Spread(defaults, data) ==
    [f \in Fields |-> IF data[f] # Absent THEN data[f] ELSE defaults[f]]

\* a || b and a ?? b on JSON values
Or(a, b) == IF Truthy(a) THEN a ELSE b

Coalesce(a, b) == IF Nullish(a) THEN b ELSE a

\* a repair that builds the record from the defaults and drops the spread
FixInvalidJSONNoSpread(data, agentType) ==
    IF agentType = "planner"
    THEN [EmptyObject EXCEPT
            !["observation"] = Or(data["observation"], "'x'"),
            !["done"] = Coalesce(data["done"], "false"),
            !["challenges"] = Or(data["challenges"], "''"),
            !["next_steps"] = Or(data["next_steps"], "'x'"),
            !["final_answer"] = Or(data["final_answer"], "''"),
            !["reasoning"] = Or(data["reasoning"], "'x'"),
            !["web_task"] = Coalesce(data["web_task"], "true")]
    ELSE [EmptyObject EXCEPT
            !["current_state"] = Or(data["current_state"], "brain"),
            !["action"] = Or(data["action"], "[a]")]

\* fixInvalidJSON
FixInvalidJSON(data, agentType) ==
    IF agentType = "planner"
    THEN Spread([EmptyObject EXCEPT
                   !["observation"] = Or(data["observation"], "'x'"),
                   !["done"] = Coalesce(data["done"], "false"),
                   !["challenges"] = Or(data["challenges"], "''"),
                   !["next_steps"] = Or(data["next_steps"], "'x'"),
                   !["final_answer"] = Or(data["final_answer"], "''"),
                   !["reasoning"] = Or(data["reasoning"], "'x'"),
                   !["web_task"] = Coalesce(data["web_task"], "true")], data)
    ELSE Spread([EmptyObject EXCEPT
                   !["current_state"] = Or(data["current_state"], "brain"),
                   !["action"] = Or(data["action"], "[a]")], data)

\* createFallbackResponse
CreateFallbackResponse(agentType) ==
    IF agentType = "planner"
    THEN [EmptyObject EXCEPT
            !["observation"] = "'x'", !["done"] = "false", !["challenges"] = "'x'",
            !["next_steps"] = "'x'", !["final_answer"] = "''",
            !["reasoning"] = "'x'", !["web_task"] = "true"]
    ELSE [EmptyObject EXCEPT !["current_state"] = "brain", !["action"] = "[a]"]

\* A response text is the object it carries and the form it carries it in:
\*   bare           the object alone
\*   fenced         prose with the object in a ``` block
\*   embedded       prose with the object inline
\*   trailingComma  the object alone, with a comma before its closing brace
\*   truncated      the object alone, cut before its closing brace
\*   prose          no object at all
Forms == {"bare", "fenced", "embedded", "trailingComma", "truncated", "prose"}

Failed == [success |-> FALSE, data |-> EmptyObject]

Parsed(data) == [success |-> TRUE, data |-> data]

\* looksLikeAgentResponse
LooksLikeAgentResponse(data) ==
    \/ data["current_state"] # Absent /\ data["action"] # Absent
    \/ data["observation"] # Absent /\ data["done"] # Absent

\* strategy 1: the trimmed text starts with { and ends with } and parses
DirectParse(text) == IF text.form = "bare" THEN Parsed(text.data) ELSE Failed

\* strategy 2: a ``` block that parses
CodeBlockParse(text) == IF text.form = "fenced" THEN Parsed(text.data) ELSE Failed

\* strategy 3: a brace group with at most one level of nesting that parses
\* and looks like an agent response
RegexParse(text) ==
    IF /\ text.form = "embedded"
       /\ text.data["action"] \notin {"[a]", "[ab]"}
       /\ LooksLikeAgentResponse(text.data)
    THEN Parsed(text.data) ELSE Failed

\* repairJSON: trailing commas dropped, the text from the first { to the last }
RepairJSON(text) ==
    IF text.form \in {"embedded", "trailingComma"} THEN Parsed(text.data) ELSE Failed

\* extractJSON
ExtractJSON(text) ==
    IF DirectParse(text).success THEN DirectParse(text)
    ELSE IF CodeBlockParse(text).success THEN CodeBlockParse(text)
    ELSE IF RegexParse(text).success THEN RegexParse(text)
    ELSE RepairJSON(text)

Count(S) == Cardinality(S)

\* the keys the text shows to detectAgentType's keyword search
KeysShown(text) ==
    IF text.form = "prose" THEN {} ELSE {f \in Fields : text.data[f] # Absent}

NavigatorScore(text) ==
    Count(KeysShown(text) \cap {"current_state", "action", "done"})
    + (IF text.form = "prose" THEN 0
       ELSE (IF text.data["current_state"] = "brain" THEN 3
             ELSE IF text.data["current_state"] = "partialBrain" THEN 2 ELSE 0)
            + (IF text.data["action"] = "[a]" THEN 1
               ELSE IF text.data["action"] = "[ab]" THEN 2 ELSE 0))

PlannerScore(text) == Count(KeysShown(text) \cap (PlannerFields \ {"done"}))

\* detectAgentType
DetectAgentType(text, ctx) ==
    IF ctx = "navigator" THEN "navigator"
    ELSE IF ctx = "planner" THEN "planner"
    ELSE IF NavigatorScore(text) > PlannerScore(text) THEN "navigator" ELSE "planner"

\* a validator that returns what it parsed, whether or not it fits the schema
ValidateResponseUnrepaired(text, expected, ctx) ==
    LET agentType == IF expected = "auto" THEN DetectAgentType(text, ctx) ELSE expected
        extraction == ExtractJSON(text)
    IN  [isValid |-> TRUE, agentType |-> agentType, corrected |-> FALSE,
         validatedData |-> extraction.data, correctedResponse |-> Undefined,
         errors |-> "[]"]

\* validateResponse
ValidateResponse(text, expected, ctx) ==
    LET agentType == IF expected = "auto" THEN DetectAgentType(text, ctx) ELSE expected
        extraction == ExtractJSON(text)
    IN  IF ~extraction.success
        THEN [isValid |-> TRUE, agentType |-> agentType, corrected |-> TRUE,
              validatedData |-> CreateFallbackResponse(agentType),
              correctedResponse |-> CreateFallbackResponse(agentType),
              errors |-> "[]"]
        ELSE IF ~ValidateAgainstSchema(extraction.data, agentType)
        THEN [isValid |-> TRUE, agentType |-> agentType, corrected |-> TRUE,
              validatedData |-> FixInvalidJSON(extraction.data, agentType),
              correctedResponse |-> FixInvalidJSON(extraction.data, agentType),
              errors |-> "[schema]"]
        ELSE [isValid |-> TRUE, agentType |-> agentType, corrected |-> FALSE,
              validatedData |-> extraction.data,
              correctedResponse |-> Undefined,
              errors |-> "[]"]

NoResult ==
    [isValid |-> FALSE, agentType |-> "unknown", corrected |-> FALSE,
     validatedData |-> EmptyObject, correctedResponse |-> Undefined,
     errors |-> "[]"]

(* ------------------------ JSONResponseMonitor -------------------------- *)
\* most monitorResponse calls made on the monitor
MaxResponses == 3

\* the monitor as constructed
NewMonitor ==
    [responseCount |-> 0, successCount |-> 0, correctionCount |-> 0,
     failureCount |-> 0, monitoringActive |-> TRUE]

\* what a monitorResponse call can meet inside its try block: nothing, an
\* exception from validateResponse, an exception from the statistics log or
\* from performAdditionalChecks
Faults == {"none", "validator", "audit"}

\* createBypassResult
CreateBypassResult ==
    [isValid |-> TRUE, agentType |-> "unknown", corrected |-> FALSE,
     validatedData |-> [EmptyObject EXCEPT !["bypass"] = "true"],
     correctedResponse |-> Undefined, errors |-> "[]"]

\* JSONResponseMonitor.createEmergencyFallback
MonitorEmergencyFallback(agentType) ==
    IF agentType = "planner"
    THEN [EmptyObject EXCEPT
            !["observation"] = "'x'", !["done"] = "false", !["challenges"] = "'x'",
            !["next_steps"] = "'x'", !["final_answer"] = "''",
            !["reasoning"] = "'x'", !["web_task"] = "true"]
    ELSE [EmptyObject EXCEPT !["current_state"] = "brain", !["action"] = "[a]"]

\* an emergency result that keeps the hint as the role and reports failure
CreateEmergencyResultInvalid(agentType) ==
    [isValid |-> FALSE, agentType |-> "unknown", corrected |-> TRUE,
     validatedData |-> Undefined,
     correctedResponse |-> MonitorEmergencyFallback("navigator"),
     errors |-> "[crash]"]

\* createEmergencyResult
CreateEmergencyResult(agentType) ==
    LET detectedType == IF agentType = "auto" THEN "navigator" ELSE agentType
    IN  [isValid |-> TRUE, agentType |-> detectedType, corrected |-> TRUE,
         validatedData |-> Undefined,
         correctedResponse |-> MonitorEmergencyFallback(detectedType),
         errors |-> "[crash]"]

\* monitorResponse: what it returns
MonitorResponse(mon, text, agentType, ctx, fault) ==
    IF ~mon.monitoringActive THEN CreateBypassResult
    ELSE IF fault # "none" THEN CreateEmergencyResult(agentType)
    ELSE ValidateResponse(text, agentType, ctx)

\* a monitor that counts the calls it bypasses
MonitorCountsAlways(mon, text, agentType, ctx, fault) ==
    [mon EXCEPT !.responseCount = @ + 1, !.successCount = @ + 1]

\* monitorResponse: the counters after it
MonitorCounts(mon, text, agentType, ctx, fault) ==
    IF ~mon.monitoringActive THEN mon
    ELSE LET validationResult == ValidateResponse(text, agentType, ctx)
             counted == [mon EXCEPT !.responseCount = @ + 1]
             logged ==
                 IF fault = "validator" THEN counted
                 ELSE IF validationResult.isValid
                 THEN IF validationResult.correctedResponse # Undefined
                      THEN [counted EXCEPT !.correctionCount = @ + 1]
                      ELSE [counted EXCEPT !.successCount = @ + 1]
                 ELSE [counted EXCEPT !.failureCount = @ + 1]
         IN  IF fault = "none" THEN logged
             ELSE [logged EXCEPT !.failureCount = @ + 1]

\* no monitorResponse call made yet
NoMonitorCall == [n |-> 0, raised |-> "none", active |-> TRUE]

\* the texts handed to the monitor: a planner record, a planner record that
\* lacks a field, a navigator record, and prose
MonitorTexts ==
    {[form |-> "bare", data |-> CreateFallbackResponse("planner")],
     [form |-> "bare", data |-> [CreateFallbackResponse("planner") EXCEPT !["reasoning"] = Absent]],
     [form |-> "bare", data |-> CreateFallbackResponse("navigator")],
     [form |-> "prose", data |-> EmptyObject]}

\* the objects the reasoning service answers a planner request with
PlannerObjects ==
    {[EmptyObject EXCEPT !["observation"] = o, !["done"] = d, !["challenges"] = c,
                         !["next_steps"] = n, !["final_answer"] = fa,
                         !["reasoning"] = r, !["web_task"] = w] :
        o \in {Absent, "''", "'x'", "5"}, d \in {Absent, "true", "'true'"},
        c \in {Absent, "'x'"}, n \in {Absent, "'x'"},
        fa \in {Absent, "null", "'x'"}, r \in {Absent, "'x'"},
        w \in {Absent, "true", "'x'"}}

\* the objects the reasoning service answers a navigator request with
NavigatorObjects ==
    {[EmptyObject EXCEPT !["current_state"] = cs, !["action"] = a, !["done"] = d] :
        cs \in {Absent, "brain", "partialBrain", "'x'"},
        a \in {Absent, "[]", "[a]", "[5]", "[ab]", "'x'"}, d \in {Absent, "true"}}

Texts == [form : Forms, data : PlannerObjects \cup NavigatorObjects]

\* how the agents call validateResponse
Calls ==
    {<<"planner", "">>, <<"navigator", "">>, <<"auto", "">>,
     <<"auto", "planner">>, <<"auto", "navigator">>}

(* ------------------ BaseAgent.invoke, manual path --------------------- *)
\* plannerOutputSchema accepts a boolean or the string 'true' or 'false'
IsBooleanLike(v) == IsBoolean(v) \/ v = "'true'"

\* the transform of its boolean fields
ToBoolean(v) == IF v = "'true'" THEN "true" ELSE v

\* plannerOutputSchema
PlannerOutputSchema(data) ==
    /\ IsString(data["observation"])
    /\ IsString(data["challenges"])
    /\ IsBooleanLike(data["done"])
    /\ IsString(data["next_steps"])
    /\ IsString(data["final_answer"])
    /\ IsString(data["reasoning"])
    /\ IsBooleanLike(data["web_task"])

\* plannerOutputSchema.parse on data it accepts: boolean strings become
\* booleans, keys the schema does not name are dropped
ParseModelOutput(data) ==
    [f \in Fields |->
        IF f \in {"done", "web_task"} THEN ToBoolean(data[f])
        ELSE IF f \in PlannerFields THEN data[f] ELSE Absent]

\* createEmergencyFallback('planner', ...)
CreateEmergencyFallback ==
    [EmptyObject EXCEPT
       !["observation"] = "'x'", !["done"] = "false", !["challenges"] = "'x'",
       !["next_steps"] = "'x'", !["final_answer"] = "''",
       !["reasoning"] = "'x'", !["web_task"] = "true"]

\* finalJson: validatedData || correctedResponse
FinalJson(monitorResult) ==
    IF monitorResult.validatedData # Undefined THEN monitorResult.validatedData
    ELSE monitorResult.correctedResponse

\* validateModelOutput(finalJson) in the manual path of the planner's invoke():
\* the parsed record, or the emergency fallback when parse throws
ValidateModelOutput(finalJson) ==
    IF PlannerOutputSchema(finalJson)
    THEN [from |-> "monitor", data |-> ParseModelOutput(finalJson)]
    ELSE [from |-> "emergency", data |-> ParseModelOutput(CreateEmergencyFallback)]

\* the manual path of the planner's invoke() on a string response
InvokeManual(mon, text, ctx, fault) ==
    ValidateModelOutput(FinalJson(MonitorResponse(mon, text, "planner", ctx, fault)))

NoModelOutput == [from |-> "none", data |-> EmptyObject]

(* ----------------------- BaseAgent.invoke, whole ---------------------- *)
\* most invoke() calls made on one agent
MaxInvokes == 2

\* ProviderTypeEnum, as far as setWithStructuredOutput tells providers apart
Providers == {"g4f", "llama", "openai"}

\* model names, as far as setWithStructuredOutput tells them apart
ModelNames ==
    {"deepseek-reasoner", "deepseek-r1", "Llama-4", "Llama-3.3", "llama-3.3",
     "llama-4", "gpt-4o"}

\* the names that contain 'Llama-4', 'Llama-3.3' or 'llama-3.3'
IsLlamaModel(modelName) == modelName \in {"Llama-4", "Llama-3.3", "llama-3.3"}

\* a setWithStructuredOutput that looks at the provider only
SetWithStructuredOutputByProvider(provider, modelName) ==
    provider \notin {"g4f", "llama"}

\* setWithStructuredOutput
SetWithStructuredOutput(provider, modelName) ==
    IF modelName = "deepseek-reasoner" \/ modelName = "deepseek-r1" THEN FALSE
    ELSE IF provider = "g4f" THEN FALSE
    ELSE IF provider = "llama" \/ IsLlamaModel(modelName) THEN FALSE
    ELSE TRUE

\* the planner agent as its constructor leaves it
NewAgent(provider, modelName) ==
    [id |-> "planner", provider |-> provider, modelName |-> modelName,
     withStructuredOutput |-> SetWithStructuredOutput(provider, modelName)]

\* how the structured call ends: with a parsed result, with a response that
\* has none, or with an error of the service
StructuredOutcomes == {"parsed", "notParsed", "aborted", "auth", "forbidden", "other"}

\* how the freeform call ends: with a text, with a content that is no string,
\* or with an error of the service
ManualOutcomes ==
    [outcome : {"text"}, text : MonitorTexts]
    \cup [outcome : {"nonString", "aborted", "auth", "forbidden", "other"},
          text : {[form |-> "prose", data |-> EmptyObject]}]

\* response.parsed of a structured call that succeeds
StructuredAnswer ==
    [EmptyObject EXCEPT
       !["observation"] = "'x'", !["done"] = "true", !["challenges"] = "''",
       !["next_steps"] = "''", !["final_answer"] = "'x'",
       !["reasoning"] = "'x'", !["web_task"] = "false"]

\* an error invoke() throws: the kind of the error of the service, and whether
\* it is thrown as the text of a new Error
Thrown(kind, wrapped) == [kind |-> kind, wrapped |-> wrapped]

NoError == Thrown("none", FALSE)

\* what one invoke() did
Done(ag, mon, output, error, sCalls, fCalls, mCalls) ==
    [agent |-> ag, jsonMonitor |-> mon, output |-> output, error |-> error,
     structuredCalls |-> sCalls, freeformCalls |-> fCalls, monitorCalls |-> mCalls]

\* the part of invoke() from line 754 on
ManualPath(ag, mon, mo, sCalls) ==
    IF mo.outcome = "text"
    THEN Done(ag, MonitorCounts(mon, mo.text, "planner", "planner", "none"),
              InvokeManual(mon, mo.text, "planner", "none"), NoError, sCalls, 1, 1)
    ELSE IF mo.outcome = "nonString"
    THEN Done(ag, mon, NoModelOutput, Thrown("other", FALSE), sCalls, 1, 0)
    ELSE Done(ag, mon, NoModelOutput, Thrown(mo.outcome, FALSE), sCalls, 1, 0)

\* an invoke() that calls the monitor on its structured path as well
InvokeMonitorsAlways(ag, mon, so, mo) ==
    Done(ag, MonitorCounts(mon, mo.text, "planner", "planner", "none"),
         [from |-> "structured", data |-> StructuredAnswer], NoError, 1, 0, 1)

\* an invoke() that downgrades whatever the provider is
InvokeDowngradesAlways(ag, mon, so, mo) ==
    IF ag.withStructuredOutput /\ so = "parsed"
    THEN Done(ag, mon, [from |-> "structured", data |-> StructuredAnswer],
              NoError, 1, 0, 0)
    ELSE ManualPath([ag EXCEPT !.withStructuredOutput = FALSE], mon, mo,
                    IF ag.withStructuredOutput THEN 1 ELSE 0)

\* invoke(): so is how its structured call ends, mo how its freeform call ends
InvokeResult(ag, mon, so, mo) ==
    IF ~ag.withStructuredOutput THEN ManualPath(ag, mon, mo, 0)
    ELSE IF so = "parsed"
    THEN Done(ag, mon, [from |-> "structured", data |-> StructuredAnswer],
              NoError, 1, 0, 0)
    ELSE IF so = "aborted"
    THEN Done(ag, mon, NoModelOutput, Thrown("aborted", FALSE), 1, 0, 0)
    ELSE IF ag.provider = "g4f"
    THEN ManualPath([ag EXCEPT !.withStructuredOutput = FALSE], mon, mo, 1)
    ELSE Done(ag, mon, NoModelOutput,
              Thrown(IF so = "notParsed" THEN "other" ELSE so, TRUE), 1, 0, 0)

\* no invoke() made yet
NotInvoked ==
    [n |-> 0, structured |-> "unused", manual |-> "unused", error |-> NoError,
     structuredCalls |-> 0, freeformCalls |-> 0, monitorCalls |-> 0]

\* the agent of the specifications that make no invoke() on it
IdleAgent == NewAgent("g4f", "gpt-4o")

\* fixInvalidJSON not called
NoFix == [once |-> EmptyObject, twice |-> EmptyObject, done |-> FALSE]

(* -------------------------- validateActions --------------------------- *)
\* longest action sequence handed to validateActions
MaxActions == 2

\* the parameters an action object carries
ParamNames == {"intent", "url", "text", "success", "index"}

NoParams == [p \in ParamNames |-> Absent]

IsNumber(v) == v \in {"0", "1", "5"}

\* an element of the action array: the number of its keys (-1 when it is not
\* an object), and for one key the action type and the value under it
Action(t, obj, ps) == [keys |-> 1, actionType |-> t, isObject |-> obj, data |-> ps]

NotAnObject == [keys |-> -1, actionType |-> "", isObject |-> FALSE, data |-> NoParams]

NoKeyAction == [keys |-> 0, actionType |-> "", isObject |-> FALSE, data |-> NoParams]

TwoKeyAction == [keys |-> 2, actionType |-> "", isObject |-> FALSE, data |-> NoParams]

\* the go_to_url action validateActions puts in place of an element
DefaultAction ==
    Action("go_to_url", TRUE, [NoParams EXCEPT !["intent"] = "'x'", !["url"] = "'x'"])

\* isValidAction
IsValidAction(actionType, isObject, data) ==
    /\ isObject
    /\ CASE actionType = "go_to_url" -> IsString(data["url"]) /\ data["url"] # "''"
         [] actionType = "done" -> IsString(data["text"]) /\ IsBoolean(data["success"])
         [] actionType = "click_element" -> IsNumber(data["index"])
         [] actionType = "input_text" -> IsNumber(data["index"]) /\ IsString(data["text"])
         [] OTHER -> TRUE

\* fixAction
FixAction(actionType, isObject, actionData) ==
    LET data == IF isObject THEN actionData ELSE NoParams
        intent == Or(data["intent"], "'x'")
        baseAction == [NoParams EXCEPT !["intent"] = intent]
    IN  CASE actionType = "go_to_url" ->
               Action(actionType, TRUE,
                      [baseAction EXCEPT !["url"] = Or(data["url"], "'x'")])
          [] actionType = "done" ->
               Action(actionType, TRUE,
                      [baseAction EXCEPT !["text"] = Or(data["text"], "'x'"),
                                         !["success"] = Coalesce(data["success"], "true")])
          [] actionType = "click_element" ->
               Action(actionType, TRUE,
                      [baseAction EXCEPT !["index"] = Or(data["index"], "1")])
          [] actionType = "input_text" ->
               Action(actionType, TRUE,
                      [baseAction EXCEPT !["index"] = Or(data["index"], "1"),
                                         !["text"] = Or(data["text"], "''")])
          [] OTHER ->
               Action(actionType, TRUE,
                      [p \in ParamNames |->
                          IF data[p] # Absent THEN data[p] ELSE baseAction[p]])

\* what validateActions puts at the place of one element
FixedElement(action) ==
    IF action.keys # 1 THEN DefaultAction
    ELSE IF IsValidAction(action.actionType, action.isObject, action.data) THEN action
    ELSE FixAction(action.actionType, action.isObject, action.data)

\* validateActions
ValidateActions(acts) ==
    IF ~acts.isArray
    THEN [done |-> TRUE, valid |-> FALSE, fixedActions |-> <<DefaultAction>>]
    ELSE LET errors == {i \in 1..Len(acts.items) :
                           \/ acts.items[i].keys # 1
                           \/ ~IsValidAction(acts.items[i].actionType,
                                             acts.items[i].isObject, acts.items[i].data)}
         IN  [done |-> TRUE, valid |-> errors = {},
              fixedActions |-> IF errors # {}
                               THEN [i \in 1..Len(acts.items) |-> FixedElement(acts.items[i])]
                               ELSE <<>>]

\* the elements a navigator response carries in its action array
ActionElements ==
    {NotAnObject, NoKeyAction, TwoKeyAction}
    \cup {Action(t, FALSE, NoParams) :
            t \in {"go_to_url", "done", "click_element", "input_text", "scroll_down"}}
    \cup {Action("go_to_url", TRUE, [NoParams EXCEPT !["url"] = u, !["intent"] = i]) :
            u \in {Absent, "''", "'x'", "5"}, i \in {Absent, "'x'"}}
    \cup {Action("done", TRUE, [NoParams EXCEPT !["text"] = t, !["success"] = sc]) :
            t \in {Absent, "''", "'x'", "5"}, sc \in {Absent, "true", "false", "'x'"}}
    \cup {Action("click_element", TRUE, [NoParams EXCEPT !["index"] = n]) :
            n \in {Absent, "0", "5", "'x'"}}
    \cup {Action("input_text", TRUE, [NoParams EXCEPT !["index"] = n, !["text"] = t]) :
            n \in {Absent, "0", "5", "'x'"}, t \in {Absent, "''", "'x'", "5"}}
    \cup {Action("scroll_down", TRUE, [NoParams EXCEPT !["intent"] = i]) :
            i \in {Absent, "'x'"}}

\* the arguments of validateActions
ActionArrays ==
    {[isArray |-> FALSE, items |-> <<>>]}
    \cup {[isArray |-> TRUE, items |-> q] :
            q \in UNION {[1..n -> ActionElements] : n \in 0..MaxActions}}

NoActions == [isArray |-> TRUE, items |-> <<>>]

\* validateActions not called
NoActionsResult == [done |-> FALSE, valid |-> FALSE, fixedActions |-> <<>>]

\* no validation in progress
PipeIdle ==
    /\ rawResponse = [form |-> "prose", data |-> EmptyObject]
    /\ expectedType = "auto"
    /\ context = ""
    /\ validation = NoResult
    /\ modelOutput = NoModelOutput
    /\ fixed = NoFix
    /\ actions = NoActions
    /\ actionsResult = NoActionsResult
    /\ jsonMonitor = NewMonitor
    /\ monitorCall = NoMonitorCall
    /\ agent = IdleAgent
    /\ invoked = NotInvoked

(* ------------------------- lifecycle events --------------------------- *)
Event(s, m, a) == [state |-> s, msg |-> m, arg |-> a]

TaskStart == Event("TASK_START", taskId, "")

\* the event emitted after the loop of execute()
TerminalEvent(stp, plan, fa) ==
    IF plan.kind = "result" /\ plan.done = TRUE
    THEN Event("TASK_OK", OrElse(fa, taskId), "")
    ELSE IF stp >= options.maxSteps
    THEN Event("TASK_FAIL", "exec_errors_maxStepsReached", "")
    ELSE IF stopped
    THEN Event("TASK_CANCEL", "exec_task_cancel", "")
    ELSE Event("TASK_PAUSE", "exec_task_pause", "")

\* a catch block that reports the error as the failure of a step
CatchEventStepFail(err) == Event("STEP_FAIL", "exec_task_fail", err)

\* the event emitted by the catch block of execute()
CatchEvent(err) ==
    IF err = "aborted"
    THEN Event("TASK_CANCEL", "exec_task_cancel", "")
    ELSE Event("TASK_FAIL", "exec_task_fail", err)

(* --------------------------- the step loop ---------------------------- *)
\* The values one code segment hands to the next: the locals of execute()
\* and the context fields the loop head reads.
Locals(stp, ns, cf, nd, plan, fa, evs, pcl, fst) ==
    [step |-> stp, nSteps |-> ns, cf |-> cf, nd |-> nd, plan |-> plan,
     fa |-> fa, evs |-> evs, pcl |-> pcl, first |-> fst]

\* the locals as they stand, for a segment that changes none of them
Here ==
    Locals(step, nSteps, consecutiveFailures, navigatorDone, latestPlanOutput,
           finalAnswer, events, plannerCalls, FALSE)

\* the run goes on: nothing stored, nothing released
Continues(L) ==
    /\ stores' = (IF L.first THEN 0 ELSE stores)
    /\ storedAfter' = (IF L.first THEN "none" ELSE storedAfter)
    /\ released' = (IF L.first THEN FALSE ELSE released)
    /\ cleaning' = cleaning

\* the subscriber of index.ts receives the run's last event ev: after TASK_OK,
\* TASK_FAIL and TASK_CANCEL it calls currentExecutor?.cleanup() and awaits it
ExecutorEvent(ev) ==
    IF ev.state \in {"TASK_OK", "TASK_FAIL", "TASK_CANCEL"} /\ currentExecutor
    THEN released' = TRUE /\ cleaning' = TRUE
    ELSE released' = FALSE /\ cleaning' = cleaning

\* a finally block that stores the history whatever the setting
FinallyAlways(L, ev) ==
    /\ stores' = (IF L.first THEN 0 ELSE stores) + 1
    /\ storedAfter' = ev.state

\* the finally block of execute(), entered after the event ev
Finally(L, ev) ==
    IF generalSettings.replayHistoricalTasks
    THEN /\ stores' = (IF L.first THEN 0 ELSE stores) + 1
         /\ storedAfter' = ev.state
    ELSE /\ stores' = (IF L.first THEN 0 ELSE stores)
         /\ storedAfter' = (IF L.first THEN "none" ELSE storedAfter)

\* leaving the loop: the terminal event, then the finally block
Finish(L) ==
    /\ ExecutorEvent(TerminalEvent(L.step, L.plan, L.fa))
    /\ Finally(L, TerminalEvent(L.step, L.plan, L.fa))
    /\ pc' = "done"
    /\ step' = L.step
    /\ navigatorDone' = L.nd
    /\ plannerCalls' = L.pcl
    /\ events' = Append(L.evs, TerminalEvent(L.step, L.plan, L.fa))

\* an exception leaving the loop
Raise(err) ==
    /\ ExecutorEvent(CatchEvent(err))
    /\ Finally(Here, CatchEvent(err))
    /\ pc' = "done"
    /\ step' = step
    /\ navigatorDone' = navigatorDone
    /\ plannerCalls' = plannerCalls
    /\ events' = Append(events, CatchEvent(err))

\* a planner branch that forgets the navigator's completion signal
IsPlanningStepIntervalOnly(ns, nd) == ns % options.planningInterval = 0

\* the condition of the planner branch
IsPlanningStep(ns, nd) == ns % options.planningInterval = 0 \/ nd

\* this.tasks.length: one task per execute() call, the one starting included
TaskCount(L) == IF L.first THEN runs + 1 ELSE runs

\* runPlanner() first awaits navigator.addStateMessageToMemory()
AddsStateMessage(L) == TaskCount(L) > 1 \/ L.nSteps > 0

\* after shouldStop() returned false: runPlanner() up to its first await, or
\* navigate()
PlanOrNavigate(L) ==
    /\ Continues(L)
    /\ step' = L.step
    /\ events' = L.evs
    /\ IF IsPlanningStep(L.nSteps, L.nd)
       THEN /\ navigatorDone' = FALSE
            /\ IF AddsStateMessage(L)
               THEN pc' = "planBefore" /\ plannerCalls' = L.pcl
               ELSE pc' = "planner" /\ plannerCalls' = L.pcl + 1
       ELSE /\ pc' = "navBefore"
            /\ navigatorDone' = L.nd
            /\ plannerCalls' = L.pcl

\* the last test of shouldStop()
FailureCheck(cf) == cf >= options.maxFailures

\* a loop that runs one iteration too many
BudgetLeftOneMore(stp) == stp <= options.maxSteps

\* the loop condition
BudgetLeft(stp) == stp < options.maxSteps

\* the head of one loop iteration, up to its first suspension
LoopHead(L) ==
    IF ~BudgetLeft(L.step) THEN Finish(L)
    ELSE IF stopped THEN Finish(L)
    ELSE IF paused
    THEN /\ pc' = "poll"
         /\ Continues(L)
         /\ step' = L.step
         /\ navigatorDone' = L.nd
         /\ plannerCalls' = L.pcl
         /\ events' = L.evs
    ELSE IF FailureCheck(L.cf) THEN Finish(L)
    ELSE PlanOrNavigate(L)

(* ------------------------------ actions ------------------------------- *)
\* no second execute() call
NoLoop == [pc |-> "none"]

(* ------------------- index.ts: the port listener --------------------- *)
\* executors set up through one port
MaxExecutors == 3

ExecutorIds == 1..MaxExecutors

\* an executor no message has asked for yet;
\* status: set up or not, running or ended; handler: what its subscriber
\* callback is doing; cleanedBy: the executors whose callback called cleanup()
\* on it
NoExecutor == [status |-> "none", handler |-> "idle", cleanedBy |-> {}]

\* no executor yet: currentExecutor = null
PortIdle ==
    /\ currentRef = 0
    /\ executors = [e \in ExecutorIds |-> NoExecutor]
    /\ cleared = {}

(* ---------------------- g4fProvider.fetchG4FModels -------------------- *)
\* largest retries argument of a fetchG4FModels call
MaxRetries == 3

defaultModels ==
    <<"qwen-2.5", "qwen-3-32b", "qwen-3-14b", "qwen-3-4b", "qwq-32b", "phi-4",
      "gemma-2-9b", "gemma-3-4b">>

Range(seq) == {seq[i] : i \in 1..Len(seq)}

\* the ids of the models of a response that is a non-empty array
ModelLists ==
    {<<"phi-4">>, <<"gpt-4o">>, <<"gpt-4o", "phi-4">>,
     <<"qwq-32b", "gpt-4o", "phi-4">>}

\* what one fetch of /models brings: an error (network, timeout, HTTP status,
\* invalid JSON), an empty array, a value that is no array, or models
Responses ==
    [kind : {"error", "empty", "notArray"}, models : {<<>>}]
    \cup [kind : {"models"}, models : ModelLists]

\* models.filter(model => defaultModels.includes(model))
WorkingModels(models) == SelectSeq(models, LAMBDA m : m \in Range(defaultModels))

\* what fetchG4FModels returns for a non-empty array
Fetched(models) ==
    IF Len(WorkingModels(models)) > 0 THEN WorkingModels(models) ELSE models

\* a loop that waits after every attempt without models
WaitsAfterAlways(kind, attempt, retries) == TRUE

\* whether the loop waits and goes on after an attempt that brought no models:
\* `attempt < retries` after an empty list, not `attempt === retries` in the catch
WaitsAfter(kind, attempt, retries) ==
    IF kind \in {"empty", "notArray"} THEN attempt < retries
    ELSE attempt # retries

\* the head of the for loop: the next fetch, or the fallback after the loop
Attempt(fetch, attempt) ==
    IF attempt <= fetch.retries
    THEN [fetch EXCEPT !.pc = "fetching", !.attempt = attempt]
    ELSE [fetch EXCEPT !.pc = "returned", !.attempt = attempt,
                       !.result = defaultModels]

\* no fetchG4FModels call made
G4FIdle ==
    g4f = [pc |-> "idle", retries |-> 0, attempt |-> 0, log |-> <<>>,
           result |-> <<>>]

\* a new executor, before its first execute()
Fresh ==
    /\ pc = "idle"
    /\ step = 0
    /\ nSteps = 0
    /\ consecutiveFailures = 0
    /\ stopped = FALSE
    /\ paused = FALSE
    /\ navigatorDone = FALSE
    /\ latestPlanOutput = NullPlan
    /\ finalAnswer = ""
    /\ lastPlannerOutput = NoOutput
    /\ repetitiveActionCount = 0
    /\ url = "u1"
    /\ beforeUrl = ""
    /\ navOutput = "none"
    /\ events = <<>>
    /\ runs = 0
    /\ pauses = 0
    /\ plannerCalls = 0
    /\ navCalls = 0
    /\ lastNav = "none"
    /\ skipped = 0
    /\ plannerErr = "none"
    /\ cancelSeen = FALSE
    /\ streak = [text |-> "", n |-> 0]
    /\ stores = 0
    /\ storedAfter = "none"
    /\ currentExecutor = TRUE
    /\ released = FALSE
    /\ cleaning = FALSE
    /\ other = NoLoop

\* an executor that runs a task and then follow-up tasks
Init ==
    /\ options \in [maxSteps : {MaxSteps}, maxFailures : 1..MaxFailuresBound,
                    planningInterval : 1..MaxInterval]
    /\ runLimit = MaxRuns
    /\ generalSettings \in [replayHistoricalTasks : BOOLEAN]
    /\ Fresh
    /\ PortIdle
    /\ G4FIdle
    /\ PipeIdle

\* an executor that runs one task with a long step budget
InitLong ==
    /\ options \in [maxSteps : {LongSteps}, maxFailures : 1..MaxFailuresBound,
                    planningInterval : 1..MaxInterval]
    /\ runLimit = 1
    /\ generalSettings = [replayHistoricalTasks |-> TRUE]
    /\ Fresh
    /\ PortIdle
    /\ G4FIdle
    /\ PipeIdle

\* execute() from its call to its first suspension
StartRun ==
    /\ currentExecutor
    /\ runs < runLimit
    /\ runs' = runs + 1
    /\ nSteps' = 0
    /\ latestPlanOutput' = NullPlan
    /\ lastNav' = "none"
    /\ navCalls' = 0
    /\ skipped' = 0
    /\ plannerErr' = "none"
    /\ cancelSeen' = FALSE
    /\ streak' = [text |-> "", n |-> 0]
    /\ LoopHead(Locals(0, 0, consecutiveFailures, FALSE, NullPlan, finalAnswer,
                       <<TaskStart>>, 0, TRUE))
    /\ UNCHANGED <<pipeVars, outerVars, options, runLimit, generalSettings, currentExecutor,
                   consecutiveFailures, stopped, paused, finalAnswer,
                   lastPlannerOutput, repetitiveActionCount, url, pauses>>

\* new_task, or follow_up_task once the previous execute() has returned
Execute ==
    /\ pc \in {"idle", "done"}
    /\ other = NoLoop
    /\ StartRun
    /\ UNCHANGED <<beforeUrl, navOutput, other>>

\* shouldStop() waking from its 200 ms sleep with the run cancelled or resumed
PollWake ==
    /\ pc = "poll"
    /\ stopped \/ ~paused
    /\ IF stopped THEN Finish(Here)
       ELSE IF FailureCheck(consecutiveFailures) THEN Finish(Here)
       ELSE PlanOrNavigate(Here)
    /\ UNCHANGED <<pipeVars, outerVars, options, runLimit, generalSettings, currentExecutor, other,
                   nSteps, consecutiveFailures, stopped, paused,
                   latestPlanOutput, finalAnswer, lastPlannerOutput,
                   repetitiveActionCount, url, beforeUrl, navOutput, runs,
                   pauses, navCalls, lastNav, skipped, plannerErr, cancelSeen, streak>>

\* runPlanner(): the browser state is in memory; planner.execute() is called
PlanBefore ==
    /\ pc = "planBefore"
    /\ pc' = "planner"
    /\ plannerCalls' = plannerCalls + 1
    /\ UNCHANGED <<pipeVars, outerVars, options, runLimit, generalSettings, currentExecutor, other,
                   stores, storedAfter, released, cleaning, step, nSteps, consecutiveFailures,
                   stopped, paused, navigatorDone, latestPlanOutput, finalAnswer,
                   lastPlannerOutput, repetitiveActionCount, url, beforeUrl,
                   navOutput, events, runs, pauses, navCalls, lastNav, skipped,
                   plannerErr, cancelSeen, streak>>

\* the run of equal non-empty next_steps texts, after one more planner call
StreakAfter(o) ==
    IF o.kind = "result" /\ o.next_steps # ""
    THEN IF streak.n > 0 /\ streak.text = o.next_steps
         THEN [text |-> o.next_steps, n |-> streak.n + 1]
         ELSE [text |-> o.next_steps, n |-> 1]
    ELSE [text |-> "", n |-> 0]

\* what execute() reads of a planner output: whether it is a result, done,
\* and the final_answer of a done result
Kept(plan) ==
    [plan EXCEPT !.next_steps = "", !.observation = "",
                 !.final_answer = IF plan.kind = "result" /\ plan.done
                                  THEN plan.final_answer ELSE ""]

\* the planner call settles: runPlanner, checkTaskCompletion, then navigate()
\* up to its first await
PlannerSettles(o) ==
    LET r  == RunPlanner(PlannerExecute(o), lastPlannerOutput, repetitiveActionCount)
        fa == FinalAnswerAfter(r.out, finalAnswer)
    IN  /\ latestPlanOutput' = Kept(r.out)
        /\ lastPlannerOutput' = r.last
        /\ repetitiveActionCount' = r.count
        /\ finalAnswer' = fa
        /\ streak' = StreakAfter(o)
        /\ plannerErr' = PlannerExecute(o).err
        /\ IF CheckTaskCompletion(r.out)
           THEN Finish([Here EXCEPT !.plan = r.out, !.fa = fa])
           ELSE /\ pc' = "navBefore"
                /\ Continues(Here)
                /\ UNCHANGED <<step, navigatorDone, plannerCalls, events>>

\* planner.execute() returns a result or fails; a call is aborted only by cancel()
PlannerReturn ==
    /\ pc = "planner"
    /\ \/ \E o \in PlannerResults : PlannerSettles(o)
       \/ \E o \in PlannerFailures : (o.err = "aborted" => stopped) /\ PlannerSettles(o)
    /\ UNCHANGED <<pipeVars, outerVars, options, runLimit, generalSettings, currentExecutor, other, nSteps, consecutiveFailures,
                   stopped, paused, url, beforeUrl, navOutput, runs, pauses,
                   navCalls, lastNav, skipped, cancelSeen>>

\* navigate(): the fingerprint before the call is in; the pause/stop check
NavBefore ==
    /\ pc = "navBefore"
    /\ IF paused \/ stopped
       THEN /\ lastNav' = "skipped"
            /\ skipped' = skipped + 1
            /\ beforeUrl' = ""
            /\ navCalls' = navCalls
            /\ LoopHead([Here EXCEPT !.step = step + 1, !.nd = FALSE])
       ELSE /\ lastNav' = "inFlight"
            /\ skipped' = skipped
            /\ beforeUrl' = url
            /\ navCalls' = navCalls + 1
            /\ pc' = "navCall"
            /\ Continues(Here)
            /\ UNCHANGED <<step, navigatorDone, plannerCalls, events>>
    /\ UNCHANGED <<pipeVars, outerVars, options, runLimit, generalSettings, currentExecutor, other, nSteps, consecutiveFailures, stopped, paused,
                   latestPlanOutput, finalAnswer, lastPlannerOutput,
                   repetitiveActionCount, url, navOutput, runs, pauses,
                   plannerErr, cancelSeen, streak>>

\* what navigator.execute() can do: return a result (done or not), return an
\* error output, or throw: an authentication, forbidden, URL-not-allowed,
\* extension-conflict or cancellation error, or anything else
NavOutcomes ==
    {"ok", "okDone", "errOut", "throw", "auth", "forbidden", "urlNotAllowed",
     "conflict", "aborted"}

\* a navigate() that counts an authentication error as a step failure
RethrownWithoutAuth == {"forbidden", "urlNotAllowed", "conflict", "aborted"}

\* errors navigate() rethrows
Rethrown == {"auth", "forbidden", "urlNotAllowed", "conflict", "aborted"}

\* a catch block that counts the failure and never gives up
CountFailureNoLimit(L) ==
    /\ consecutiveFailures' = L.cf + 1
    /\ LoopHead([L EXCEPT !.cf = L.cf + 1, !.step = L.step + 1, !.nd = FALSE])

\* the catch block of navigate() for an error it does not rethrow
CountFailure(L) ==
    /\ consecutiveFailures' = L.cf + 1
    /\ IF L.cf + 1 >= options.maxFailures
       THEN Raise("exec_errors_maxFailuresReached")
       ELSE LoopHead([L EXCEPT !.cf = L.cf + 1, !.step = L.step + 1, !.nd = FALSE])

\* a navigator output that navigate() drops because of pause or cancel
Discarded(o) ==
    IF o = "errOut" THEN "discardedErr"
    ELSE IF o = "okDone" THEN "discardedDone" ELSE "discardedOk"

\* a navigate() that reports the completion of an output it drops
DroppedDoneKept(o) == o = "okDone"

\* what navigate() returns for an output it drops: false
DroppedDone(o) == FALSE

\* navigator.execute() settles
NavReturn ==
    /\ pc = "navCall"
    /\ \E o \in NavOutcomes, u \in Urls :
         /\ o = "aborted" => stopped
         /\ url' = u
         /\ streak' = IF u # url THEN [text |-> "", n |-> 0] ELSE streak
         /\ beforeUrl' = IF o \in {"ok", "okDone", "errOut"} /\ ~(paused \/ stopped)
                         THEN beforeUrl ELSE ""
         /\ IF o \in Rethrown
            THEN /\ lastNav' = o
                 /\ Raise(o)
                 /\ UNCHANGED <<consecutiveFailures, navOutput>>
            ELSE IF o \notin {"ok", "okDone", "errOut"}
            THEN /\ lastNav' = o
                 /\ CountFailure(Here)
                 /\ UNCHANGED navOutput
            ELSE IF paused \/ stopped
            THEN /\ lastNav' = Discarded(o)
                 /\ LoopHead([Here EXCEPT !.step = step + 1, !.nd = DroppedDone(o)])
                 /\ UNCHANGED <<consecutiveFailures, navOutput>>
            ELSE /\ lastNav' = o
                 /\ pc' = "navAfter"
                 /\ Continues(Here)
                 /\ navOutput' = o
                 /\ UNCHANGED <<consecutiveFailures, step, navigatorDone,
                                plannerCalls, events>>
    /\ UNCHANGED <<pipeVars, outerVars, options, runLimit, generalSettings, currentExecutor, other, nSteps, stopped, paused, latestPlanOutput,
                   finalAnswer, lastPlannerOutput, repetitiveActionCount,
                   runs, pauses, navCalls, skipped, plannerErr, cancelSeen>>

\* a progress guard that never resets the count
ProgressGuardNever(before, after, count) == count

\* the progress guard: repetitiveActionCount after the fingerprints are compared
ProgressGuard(before, after, count) == IF before # after THEN 0 ELSE count

\* navigate(): the fingerprint after the call is in; the output is processed
NavAfter ==
    /\ pc = "navAfter"
    /\ repetitiveActionCount' = ProgressGuard(beforeUrl, url, repetitiveActionCount)
    /\ nSteps' = nSteps + 1
    /\ navOutput' = "none"
    /\ beforeUrl' = ""
    /\ IF navOutput = "errOut"
       THEN CountFailure([Here EXCEPT !.nSteps = nSteps + 1])
       ELSE /\ consecutiveFailures' = 0
            /\ LoopHead([Here EXCEPT !.nSteps = nSteps + 1, !.cf = 0,
                                     !.step = step + 1,
                                     !.nd = (navOutput = "okDone")])
    /\ UNCHANGED <<pipeVars, outerVars, options, runLimit, generalSettings, currentExecutor, other, stopped, paused, latestPlanOutput, finalAnswer,
                   lastPlannerOutput, url, runs, pauses, navCalls,
                   lastNav, skipped, plannerErr, cancelSeen, streak>>

\* the state index.ts and the finally block of execute() keep
hostVars ==
    <<generalSettings, stores, storedAfter, currentExecutor, released, cleaning>>

\* the state of the executor and of its run
execVars ==
    <<options, pc, step, nSteps, consecutiveFailures, stopped, paused,
      navigatorDone, latestPlanOutput, finalAnswer, lastPlannerOutput,
      repetitiveActionCount, url, beforeUrl, navOutput, events, runs, runLimit,
      pauses, plannerCalls, navCalls, lastNav, skipped, plannerErr, cancelSeen,
      streak, other>>

Running == pc \notin {"idle", "done"}

Cancel ==
    /\ Running
    /\ currentExecutor
    /\ ~stopped
    /\ stopped' = TRUE
    /\ cancelSeen' = TRUE
    /\ UNCHANGED <<pipeVars, outerVars, options, runLimit, generalSettings, currentExecutor, other,
                   stores, storedAfter, released, cleaning, pc, step, nSteps, consecutiveFailures, paused,
                   navigatorDone, latestPlanOutput, finalAnswer,
                   lastPlannerOutput, repetitiveActionCount, url, beforeUrl,
                   navOutput, events, runs, pauses, plannerCalls, navCalls,
                   lastNav, skipped, plannerErr, streak>>

Pause ==
    /\ Running
    /\ currentExecutor
    /\ ~paused
    /\ pauses < MaxPauses
    /\ paused' = TRUE
    /\ pauses' = pauses + 1
    /\ UNCHANGED <<pipeVars, outerVars, options, runLimit, generalSettings, currentExecutor, other,
                   stores, storedAfter, released, cleaning, pc, step, nSteps, consecutiveFailures, stopped,
                   navigatorDone, latestPlanOutput, finalAnswer,
                   lastPlannerOutput, repetitiveActionCount, url, beforeUrl,
                   navOutput, events, runs, plannerCalls, navCalls,
                   lastNav, skipped, plannerErr, cancelSeen, streak>>

Resume ==
    /\ Running
    /\ currentExecutor
    /\ paused
    /\ paused' = FALSE
    /\ UNCHANGED <<pipeVars, outerVars, options, runLimit, generalSettings, currentExecutor, other,
                   stores, storedAfter, released, cleaning, pc, step, nSteps, consecutiveFailures, stopped,
                   navigatorDone, latestPlanOutput, finalAnswer,
                   lastPlannerOutput, repetitiveActionCount, url, beforeUrl,
                   navOutput, events, runs, pauses, plannerCalls, navCalls,
                   lastNav, skipped, plannerErr, cancelSeen, streak>>

\* the cleanup() awaited by a subscriber callback settles: currentExecutor = null
ExecutorCleaned ==
    /\ cleaning
    /\ cleaning' = FALSE
    /\ currentExecutor' = FALSE
    /\ UNCHANGED <<pipeVars, outerVars, execVars, generalSettings, stores, storedAfter, released>>

Next ==
    \/ Execute
    \/ PollWake
    \/ PlanBefore
    \/ PlannerReturn
    \/ NavBefore
    \/ NavReturn
    \/ NavAfter
    \/ Cancel
    \/ Pause
    \/ Resume
    \/ ExecutorCleaned

Spec == Init /\ [][Next]_vars

SpecLong == InitLong /\ [][Next]_vars

\* the steps execute() takes by itself once the call it waits for has settled
ExecutorStep == PollWake \/ PlanBefore \/ PlannerReturn \/ NavBefore \/ NavReturn \/ NavAfter

\* every call returns or raises, and a pause is followed by resume or cancel
Fairness == WF_vars(ExecutorStep) /\ WF_vars(Resume)

FairSpecLong == InitLong /\ [][Next]_vars /\ Fairness

(* ------------- follow-up tasks sent while a run is active ------------- *)
\* the locals of an execute() call waiting at one of its awaits
Parked ==
    [pc |-> pc, step |-> step, navigatorDone |-> navigatorDone,
     latestPlanOutput |-> latestPlanOutput, beforeUrl |-> beforeUrl,
     navOutput |-> navOutput]

\* follow_up_task while execute() is in progress: the handler calls execute()
\* on the same executor again
FollowUpTask ==
    /\ Running
    /\ other = NoLoop
    /\ other' = Parked
    /\ beforeUrl' = ""
    /\ navOutput' = "none"
    /\ StartRun

\* the call that the other execute() awaits settles next
Switch ==
    /\ other # NoLoop
    /\ pc' = other.pc
    /\ step' = other.step
    /\ navigatorDone' = other.navigatorDone
    /\ latestPlanOutput' = other.latestPlanOutput
    /\ beforeUrl' = other.beforeUrl
    /\ navOutput' = other.navOutput
    /\ other' = IF pc = "done" THEN NoLoop ELSE Parked
    /\ UNCHANGED <<pipeVars, outerVars, options, runLimit, generalSettings, currentExecutor,
                   stores, storedAfter, released, cleaning, nSteps,
                   consecutiveFailures, stopped, paused, finalAnswer,
                   lastPlannerOutput, repetitiveActionCount, url, events, runs,
                   pauses, plannerCalls, navCalls, lastNav, skipped, plannerErr,
                   cancelSeen, streak>>

\* an executor whose side panel sends follow-up tasks at any time
InitOverlap ==
    /\ options \in [maxSteps : {OverlapSteps}, maxFailures : 1..MaxFailuresBound,
                    planningInterval : {MaxInterval}]
    /\ runLimit = MaxRuns
    /\ generalSettings = [replayHistoricalTasks |-> FALSE]
    /\ Fresh
    /\ PortIdle
    /\ G4FIdle
    /\ PipeIdle

NextOverlap ==
    \/ Next
    \/ FollowUpTask
    \/ Switch

SpecOverlap == InitOverlap /\ [][NextOverlap]_vars

(* ------------------- the validation worker alone --------------------- *)
\* one response text handed to validateResponse
InitPipe ==
    /\ options = [maxSteps |-> MaxSteps, maxFailures |-> MaxFailuresBound,
                  planningInterval |-> MaxInterval]
    /\ runLimit = 0
    /\ generalSettings = [replayHistoricalTasks |-> TRUE]
    /\ Fresh
    /\ PortIdle
    /\ G4FIdle
    /\ rawResponse \in Texts
    /\ \E c \in Calls : expectedType = c[1] /\ context = c[2]
    /\ validation = NoResult
    /\ modelOutput = NoModelOutput
    /\ fixed = NoFix
    /\ actions = NoActions
    /\ actionsResult = NoActionsResult
    /\ jsonMonitor = NewMonitor
    /\ monitorCall = NoMonitorCall
    /\ agent = IdleAgent
    /\ invoked = NotInvoked

\* validateResponse runs to its return
Validate ==
    /\ validation = NoResult
    /\ validation' = ValidateResponse(rawResponse, expectedType, context)
    /\ UNCHANGED <<execVars, hostVars, outerVars, agentVars, actionVars, monitorVars, rawResponse,
                   expectedType, context, modelOutput, fixed>>

\* the planner's invoke() receives the response text and runs its manual path
Invoke ==
    /\ validation = NoResult
    /\ expectedType = "planner"
    /\ validation' = MonitorResponse(jsonMonitor, rawResponse, "planner", context, "none")
    /\ modelOutput' = InvokeManual(jsonMonitor, rawResponse, context, "none")
    /\ jsonMonitor' = MonitorCounts(jsonMonitor, rawResponse, "planner", context, "none")
    /\ monitorCall' = [n |-> monitorCall.n + 1, raised |-> "none",
                       active |-> jsonMonitor.monitoringActive]
    /\ UNCHANGED <<execVars, hostVars, outerVars, agentVars, actionVars, rawResponse, expectedType, context, fixed>>

\* fixInvalidJSON is applied to the record of the response, and to its result
Repair ==
    /\ ~fixed.done
    /\ expectedType # "auto"
    /\ fixed' = [once |-> FixInvalidJSON(rawResponse.data, expectedType),
                 twice |-> FixInvalidJSON(FixInvalidJSON(rawResponse.data, expectedType),
                                          expectedType),
                 done |-> TRUE]
    /\ UNCHANGED <<execVars, hostVars, outerVars, agentVars, actionVars, monitorVars, rawResponse,
                   expectedType, context, validation, modelOutput>>

NextPipe ==
    \/ Validate
    \/ Invoke
    \/ Repair

SpecPipe == InitPipe /\ [][NextPipe]_vars

(* ------------------------ validateActions alone ----------------------- *)
\* one action array handed to validateActions
InitActions ==
    /\ options = [maxSteps |-> MaxSteps, maxFailures |-> MaxFailuresBound,
                  planningInterval |-> MaxInterval]
    /\ runLimit = 0
    /\ generalSettings = [replayHistoricalTasks |-> TRUE]
    /\ Fresh
    /\ PortIdle
    /\ G4FIdle
    /\ rawResponse = [form |-> "prose", data |-> EmptyObject]
    /\ expectedType = "auto"
    /\ context = ""
    /\ validation = NoResult
    /\ modelOutput = NoModelOutput
    /\ fixed = NoFix
    /\ actions \in ActionArrays
    /\ actionsResult = NoActionsResult
    /\ jsonMonitor = NewMonitor
    /\ monitorCall = NoMonitorCall
    /\ agent = IdleAgent
    /\ invoked = NotInvoked

\* validateActions runs to its return
ValidateActionsCall ==
    /\ ~actionsResult.done
    /\ actionsResult' = ValidateActions(actions)
    /\ UNCHANGED <<execVars, hostVars, outerVars, agentVars, monitorVars, rawResponse, expectedType,
                   context, validation, modelOutput, fixed, actions>>

NextActions == ValidateActionsCall

SpecActions == InitActions /\ [][NextActions]_vars

(* ---------------------- the monitor and its callers ------------------- *)
InitMonitor ==
    /\ options = [maxSteps |-> MaxSteps, maxFailures |-> MaxFailuresBound,
                  planningInterval |-> MaxInterval]
    /\ runLimit = 0
    /\ generalSettings = [replayHistoricalTasks |-> TRUE]
    /\ Fresh
    /\ PortIdle
    /\ G4FIdle
    /\ PipeIdle

\* one monitorResponse call, from its entry to its return
MonitorResponseCall ==
    /\ monitorCall.n < MaxResponses
    /\ \E text \in MonitorTexts, c \in Calls, fault \in Faults :
          /\ rawResponse' = text
          /\ expectedType' = c[1]
          /\ context' = c[2]
          /\ validation' = MonitorResponse(jsonMonitor, text, c[1], c[2], fault)
          /\ jsonMonitor' = MonitorCounts(jsonMonitor, text, c[1], c[2], fault)
          /\ monitorCall' = [n |-> monitorCall.n + 1,
                             raised |-> IF jsonMonitor.monitoringActive
                                        THEN fault ELSE "none",
                             active |-> jsonMonitor.monitoringActive]
    /\ UNCHANGED <<execVars, hostVars, outerVars, agentVars, actionVars, modelOutput, fixed>>

\* setMonitoring
SetMonitoring ==
    /\ \E enabled \in BOOLEAN :
          jsonMonitor' = [jsonMonitor EXCEPT !.monitoringActive = enabled]
    /\ UNCHANGED <<execVars, hostVars, outerVars, agentVars, actionVars, monitorCall, rawResponse,
                   expectedType, context, validation, modelOutput, fixed>>

\* resetStatistics
ResetStatistics ==
    /\ jsonMonitor' = [jsonMonitor EXCEPT !.responseCount = 0, !.successCount = 0,
                                          !.correctionCount = 0, !.failureCount = 0]
    /\ UNCHANGED <<execVars, hostVars, outerVars, agentVars, actionVars, monitorCall, rawResponse,
                   expectedType, context, validation, modelOutput, fixed>>

NextMonitor ==
    \/ MonitorResponseCall
    \/ SetMonitoring
    \/ ResetStatistics

SpecMonitor == InitMonitor /\ [][NextMonitor]_vars

(* ------------------------- one agent's invoke() ----------------------- *)
InitAgent ==
    /\ options = [maxSteps |-> MaxSteps, maxFailures |-> MaxFailuresBound,
                  planningInterval |-> MaxInterval]
    /\ runLimit = 0
    /\ generalSettings = [replayHistoricalTasks |-> TRUE]
    /\ Fresh
    /\ PortIdle
    /\ G4FIdle
    /\ rawResponse = [form |-> "prose", data |-> EmptyObject]
    /\ expectedType = "auto"
    /\ context = ""
    /\ validation = NoResult
    /\ modelOutput = NoModelOutput
    /\ fixed = NoFix
    /\ actions = NoActions
    /\ actionsResult = NoActionsResult
    /\ jsonMonitor \in {NewMonitor, [NewMonitor EXCEPT !.monitoringActive = FALSE]}
    /\ monitorCall = NoMonitorCall
    /\ \E provider \in Providers, modelName \in ModelNames :
          agent = NewAgent(provider, modelName)
    /\ invoked = NotInvoked

\* one invoke() call, from its entry to its return or throw
AgentInvoke ==
    /\ invoked.n < MaxInvokes
    /\ \E so \in StructuredOutcomes, mo \in ManualOutcomes :
          LET r == InvokeResult(agent, jsonMonitor, so, mo)
          IN  /\ agent' = r.agent
              /\ jsonMonitor' = r.jsonMonitor
              /\ modelOutput' = r.output
              /\ monitorCall' = [monitorCall EXCEPT !.n = @ + r.monitorCalls]
              /\ invoked' = [n |-> invoked.n + 1,
                             structured |-> IF r.structuredCalls > 0 THEN so ELSE "unused",
                             manual |-> IF r.freeformCalls > 0 THEN mo.outcome ELSE "unused",
                             error |-> r.error,
                             structuredCalls |-> r.structuredCalls,
                             freeformCalls |-> r.freeformCalls,
                             monitorCalls |-> r.monitorCalls]
    /\ UNCHANGED <<execVars, hostVars, outerVars, actionVars, rawResponse, expectedType,
                   context, validation, fixed>>

NextAgent == AgentInvoke

SpecAgent == InitAgent /\ [][NextAgent]_vars

(* --------------------- fetchG4FModels, specification ------------------ *)
\* nothing else is going on
InitIdle ==
    /\ options = [maxSteps |-> MaxSteps, maxFailures |-> MaxFailuresBound,
                  planningInterval |-> MaxInterval]
    /\ runLimit = 0
    /\ generalSettings = [replayHistoricalTasks |-> TRUE]
    /\ Fresh
    /\ PortIdle
    /\ G4FIdle
    /\ PipeIdle

\* fetchG4FModels(baseUrl, retries) up to its first fetch
FetchG4FModels ==
    /\ g4f.pc = "idle"
    /\ \E retries \in -1..MaxRetries :
          g4f' = Attempt([g4f EXCEPT !.retries = retries], 1)
    /\ UNCHANGED <<execVars, hostVars, pipeVars, portVars>>

\* the fetch of one attempt settles
FetchSettles ==
    /\ g4f.pc = "fetching"
    /\ \E response \in Responses :
          LET logged == [g4f EXCEPT !.log = Append(@, response.kind)] IN
          g4f' = IF response.kind = "models"
                 THEN [logged EXCEPT !.pc = "returned",
                                     !.result = Fetched(response.models)]
                 ELSE IF WaitsAfter(response.kind, g4f.attempt, g4f.retries)
                 THEN [logged EXCEPT !.pc = "waiting", !.log = Append(@, "wait")]
                 ELSE [logged EXCEPT !.pc = "returned", !.result = defaultModels]
    /\ UNCHANGED <<execVars, hostVars, pipeVars, portVars>>

\* the delay between two attempts is over
DelayOver ==
    /\ g4f.pc = "waiting"
    /\ g4f' = Attempt(g4f, g4f.attempt + 1)
    /\ UNCHANGED <<execVars, hostVars, pipeVars, portVars>>

NextG4F ==
    \/ FetchG4FModels
    \/ FetchSettles
    \/ DelayOver

SpecG4F == InitIdle /\ [][NextG4F]_vars

(* ------------------ index.ts: executors of one port ------------------- *)
\* the events that end an execute() or replayHistory() call
TerminalStates == {"TASK_OK", "TASK_FAIL", "TASK_CANCEL", "TASK_PAUSE"}

\* new_task or replay arrives: the handler awaits setupExecutor()
NewTask ==
    /\ \E e \in ExecutorIds :
          /\ executors[e].status = "none"
          /\ \A d \in ExecutorIds : d < e => executors[d].status # "none"
          /\ executors' = [executors EXCEPT ![e].status = "setup"]
    /\ UNCHANGED <<execVars, hostVars, pipeVars, g4f, currentRef, cleared>>

\* setupExecutor() settles: currentExecutor = the new executor, which is
\* subscribed to and started
SetupDone ==
    /\ \E e \in ExecutorIds :
          /\ executors[e].status = "setup"
          /\ executors' = [executors EXCEPT ![e].status = "running"]
          /\ currentRef' = e
    /\ UNCHANGED <<execVars, hostVars, pipeVars, g4f, cleared>>

\* executor e emits its last event; its subscriber callback runs up to the
\* await of currentExecutor?.cleanup()
ExecutorEnds ==
    /\ \E e \in ExecutorIds, state \in TerminalStates :
          /\ executors[e].status = "running"
          /\ executors' =
                IF state = "TASK_PAUSE"
                THEN [executors EXCEPT ![e].status = "ended"]
                ELSE [x \in ExecutorIds |->
                        [status    |-> IF x = e THEN "ended" ELSE executors[x].status,
                         handler   |-> IF x = e THEN "cleaning" ELSE executors[x].handler,
                         cleanedBy |-> IF x = currentRef
                                       THEN executors[x].cleanedBy \cup {e}
                                       ELSE executors[x].cleanedBy]]
    /\ UNCHANGED <<execVars, hostVars, pipeVars, g4f, currentRef, cleared>>

\* the cleanup() the callback of executor e awaits settles: currentExecutor = null
CleanupSettles ==
    /\ \E e \in ExecutorIds :
          /\ executors[e].handler = "cleaning"
          /\ executors' = [executors EXCEPT ![e].handler = "idle"]
          /\ cleared' = cleared \cup {[by |-> e, ref |-> currentRef]}
          /\ currentRef' = 0
    /\ UNCHANGED <<execVars, hostVars, pipeVars, g4f>>

NextPort ==
    \/ NewTask
    \/ SetupDone
    \/ ExecutorEnds
    \/ CleanupSettles

SpecPort == InitIdle /\ [][NextPort]_vars

(* ------------------------------ claims -------------------------------- *)
LastEvent == events[Len(events)]

\* execute() has emitted its terminal event and returned
Ended == pc = "done"

EndedAs(s) == Ended /\ LastEvent.state = s

PlanDone == latestPlanOutput.kind = "result" /\ latestPlanOutput.done

\* C1: whatever the response text and the role, validateResponse returns a
\* record that satisfies the schema of the role it reports.
C1_ResultSatisfiesSchema ==
    validation # NoResult =>
        /\ validation.isValid
        /\ validation.agentType \in {"planner", "navigator"}
        /\ ValidateAgainstSchema(validation.validatedData, validation.agentType)

\* C2 as stated: the third of three consecutive planner results with the same
\* non-empty next_steps completes the run, and there is no fourth.
C2_ThirdRepeatCompletes ==
    /\ streak.n <= 3
    /\ streak.n = 3 => EndedAs("TASK_OK")

\* C2 as amended: the fourth of four consecutive planner results with the same
\* non-empty next_steps (fingerprint unchanged) completes the run, and there is
\* no fifth.
C2_FourthRepeatCompletes ==
    /\ streak.n <= 4
    /\ streak.n = 4 => EndedAs("TASK_OK")

C2_Witness ==
    /\ streak.n = 4
    /\ EndedAs("TASK_OK")
    /\ LastEvent.msg = forceCompletionPlan.final_answer

\* navigate() goes on from the second fingerprint with the output it kept
OutputKept(kinds) == pc = "navAfter" /\ pc' # "navAfter" /\ navOutput \in kinds

\* the navigator call settles with a failure navigate() counts
CountedFailure ==
    \/ pc = "navCall" /\ lastNav' = "throw"
    \/ OutputKept({"errOut"})

\* the navigator call settles with a result navigate() drops
DroppedOutput(kinds) == pc = "navCall" /\ lastNav' \in kinds

MaxFailuresEvent == Event("TASK_FAIL", "exec_task_fail", "exec_errors_maxFailuresReached")

\* the failure is counted and, at maxFailures, ends the run at once
FailureCounted ==
    /\ consecutiveFailures' = consecutiveFailures + 1
    /\ consecutiveFailures' >= options.maxFailures =>
          /\ pc' = "done"
          /\ events' = Append(events, MaxFailuresEvent)
          /\ plannerCalls' = plannerCalls
          /\ navCalls' = navCalls

\* C3 as stated: every non-fatal navigator failure increments
\* consecutiveFailures and every navigator success resets it; reaching
\* maxFailures ends the run Failed in the same cycle, with no further call.
C3_EveryOutcomeCounts ==
    [][/\ CountedFailure \/ DroppedOutput({"discardedErr"}) => FailureCounted
       /\ \/ OutputKept({"ok", "okDone"})
          \/ DroppedOutput({"discardedOk", "discardedDone"})
          => consecutiveFailures' = 0]_vars

\* C3 as amended: every non-fatal navigator failure that is not dropped
\* because pause or cancel was requested during the call increments
\* consecutiveFailures, every success that is not dropped resets it, and a
\* dropped output leaves it alone; reaching maxFailures ends the run Failed in
\* the same cycle, with no further call.
C3_KeptOutcomeCounts ==
    [][/\ CountedFailure => FailureCounted
       /\ OutputKept({"ok", "okDone"}) => consecutiveFailures' = 0
       /\ DroppedOutput({"discardedErr", "discardedOk", "discardedDone"})
          => consecutiveFailures' = consecutiveFailures]_vars

C3_Witness ==
    /\ Ended
    /\ LastEvent = MaxFailuresEvent
    /\ lastNav \in {"throw", "errOut"}
    /\ consecutiveFailures = options.maxFailures
    /\ step + 1 < options.maxSteps

AuthFailEvent == Event("TASK_FAIL", "exec_task_fail", "auth")

\* C4 as stated: an authentication error raised by the navigator call of cycle
\* k (here step + 1) ends the run Failed with exactly k navigator calls.
C4_ExactlyKCalls ==
    lastNav = "auth" =>
        /\ Ended
        /\ LastEvent = AuthFailEvent
        /\ navCalls = step + 1

\* C4 as amended: it ends the run Failed with exactly k - s navigator calls,
\* s being the earlier cycles that skipped the call because of pause; nothing
\* is called afterwards and consecutiveFailures is not incremented.
C4_AuthErrorStops ==
    /\ [](lastNav = "auth" =>
            /\ Ended
            /\ LastEvent = AuthFailEvent
            /\ navCalls = step + 1 - skipped)
    /\ [][lastNav' = "auth" /\ lastNav # "auth" =>
            /\ consecutiveFailures' = consecutiveFailures
            /\ plannerCalls' = plannerCalls
            /\ navCalls' = navCalls]_vars

C4_Witness ==
    /\ lastNav = "auth"
    /\ Ended
    /\ step = 2
    /\ skipped = 1
    /\ navCalls = 2

\* C5: an authentication, forbidden or cancellation error thrown by the
\* planner call ends the run at once, Cancelled for the cancellation and Failed
\* otherwise, so that no navigator call follows it.
C5_PlannerErrorPropagates ==
    plannerErr # "none" =>
        /\ Ended
        /\ LastEvent.state = IF plannerErr = "aborted" THEN "TASK_CANCEL" ELSE "TASK_FAIL"

\* C6: a run during which cancel() was requested (and which neither the
\* planner completed nor a raised error ended first) ends with TASK_CANCEL,
\* whatever the cycle the request came in; and TASK_CANCEL is emitted only when
\* cancellation was requested.
C6_CancelEndsCancelled ==
    /\ Ended /\ cancelSeen /\ ~PlanDone /\ LastEvent.msg # "exec_task_fail"
          => LastEvent.state = "TASK_CANCEL"
    /\ EndedAs("TASK_CANCEL") => stopped


\* C7: when every call settles and every pause is followed by resume or cancel,
\* a run ends with a terminal event, after at most maxSteps cycles, navigator
\* calls and planner calls.
C7_Terminates ==
    /\ [](/\ step <= options.maxSteps
          /\ navCalls <= options.maxSteps
          /\ plannerCalls <= options.maxSteps
          /\ Ended => Len(events) = 2 /\ LastEvent.state \in TerminalStates)
    /\ (Running ~> Ended)

C7_Witness ==
    /\ Ended
    /\ step = options.maxSteps
    /\ navCalls = options.maxSteps
    /\ plannerCalls = options.maxSteps
    /\ pauses > 0

MaxStepsEvent == Event("TASK_FAIL", "exec_errors_maxStepsReached", "")

\* C8: a run that goes through all maxSteps cycles without the planner
\* reporting done ends with the max-steps failure, and the max-steps failure
\* is emitted only after a run through the whole budget in which no
\* completion, cancellation or failure limit occurred.
C8_MaxStepsIffBudgetSpent ==
    Ended =>
        /\ step >= options.maxSteps /\ ~PlanDone => LastEvent = MaxStepsEvent
        /\ LastEvent = MaxStepsEvent =>
              /\ step >= options.maxSteps
              /\ ~PlanDone
              /\ ~cancelSeen
              /\ consecutiveFailures < options.maxFailures

\* C9: TASK_OK is emitted exactly when the latest planner output of the run
\* has done = true (so a navigator output never completes a run), and its
\* message is that output's final_answer when non-empty, else the task id.
C9_OnlyPlannerCompletes ==
    Ended =>
        /\ LastEvent.state = "TASK_OK" <=> PlanDone
        /\ LastEvent.state = "TASK_OK" =>
              LastEvent.msg = OrElse(latestPlanOutput.final_answer, taskId)

\* a cycle passes the stop-check: runPlanner() or navigate() starts
CyclePass ==
    /\ pc \notin {"planBefore", "planner", "navBefore"}
    /\ pc' \in {"planBefore", "planner", "navBefore"}

\* C10 as stated: in a cycle that passes the stop-check the planner is called
\* exactly when the cycle index is a multiple of planningInterval or the
\* navigator call of the previous cycle reported completion.
C10_PlannerByCycleIndex ==
    [][CyclePass =>
        (pc' \in {"planBefore", "planner"} <=>
            \/ step' % options.planningInterval = 0
            \/ lastNav' \in {"okDone", "discardedDone"})]_vars

\* C10 as amended: the planner is called exactly when nSteps, the number of
\* navigator outputs processed so far in the run, is a multiple of
\* planningInterval or navigate() of the previous cycle processed an output
\* that reported completion.
C10_PlannerByStepsDone ==
    [][CyclePass =>
        (pc' \in {"planBefore", "planner"} <=>
            \/ nSteps' % options.planningInterval = 0
            \/ lastNav' = "okDone")]_vars

C10_Witness ==
    /\ pc = "planner"
    /\ options.planningInterval = 2
    /\ step = 1
    /\ nSteps = 0
    /\ lastNav = "throw"

\* a stop-check that finds consecutiveFailures at the limit while neither
\* cancel nor pause is requested: at the start of execute(), or on waking
\* from the pause poll
StopCheckAtLimit ==
    /\ runs' = runs + 1 \/ (pc = "poll" /\ pc' # "poll")
    /\ consecutiveFailures >= options.maxFailures
    /\ ~stopped
    /\ ~paused

\* C11: a stop-check that finds consecutiveFailures >= maxFailures, with
\* neither cancel nor pause requested, ends the run Failed: the terminal event
\* is TASK_FAIL and no planner or navigator call is made in that cycle.
C11_FailureLimitFails ==
    [][StopCheckAtLimit =>
        /\ pc' = "done"
        /\ events'[Len(events')].state = "TASK_FAIL"
        /\ plannerCalls' = (IF pc = "poll" THEN plannerCalls ELSE 0)
        /\ navCalls' = (IF pc = "poll" THEN navCalls ELSE 0)]_vars

\* execute() emits its terminal event and returns
RunEnds == pc # "done" /\ pc' = "done"

\* C12: while pause is requested no planner or navigator call is started, and
\* execute() emits no terminal event (TASK_OK, TASK_FAIL or TASK_PAUSE) unless
\* cancel has been requested as well: a paused run goes on only by resume and
\* ends only by cancel.
C12_PauseOnlySuspends ==
    [][paused =>
        /\ plannerCalls' <= plannerCalls
        /\ navCalls' <= navCalls
        /\ ~stopped => ~RunEnds]_vars

\* C13: on every exit path of a run, once execute() has emitted its final
\* lifecycle event the run's browser context is released (cleanup() is
\* called); no run ends with its resources never released.
C13_ResourcesReleased == Ended => released

\* C14: execute() stores the step history under the task id exactly once on
\* every exit path when replayHistoricalTasks is set, after the terminal event
\* has been emitted, and never stores it when the setting is off.
C14_HistoryStoredOnce ==
    /\ Running => stores = 0
    /\ Ended => stores = (IF generalSettings.replayHistoricalTasks THEN 1 ELSE 0)
    /\ stores > 0 => storedAfter = LastEvent.state /\ storedAfter \in TerminalStates

C14_Witness ==
    /\ Ended
    /\ runs = 2
    /\ generalSettings.replayHistoricalTasks
    /\ stores = 1
    /\ LastEvent = MaxFailuresEvent
    /\ storedAfter = "TASK_FAIL"

\* execute() calls that have started on the executor and not yet returned
ActiveLoops ==
    (IF Running THEN 1 ELSE 0) + (IF other # NoLoop THEN 1 ELSE 0)

\* C15: whatever the order of the side-panel messages, at most one execute()
\* loop is active on an executor, so that no two cycles and no two planner or
\* navigator calls are in flight together.
C15_OneLoopAtATime == ActiveLoops <= 1

\* C16: on the manual path the final check of the Monitor's record against the
\* planner's output schema does not fail: a planner response that satisfies
\* the wire schema (final_answer = null included) and is delivered uncorrected
\* is returned by invoke() with its field values, not replaced by a fallback.
C16_MonitorRecordReturned ==
    modelOutput # NoModelOutput /\ ~validation.corrected =>
        /\ modelOutput.from = "monitor"
        /\ \A f \in PlannerFields :
              modelOutput.data[f] = ToBoolean(validation.validatedData[f])

\* C17: the action sequence of every navigator record the pipeline returns
\* (uncorrected, repaired or fallback) is non-empty; an input whose action is
\* the empty sequence comes out with at least one action.
C17_ActionNonEmpty ==
    validation # NoResult /\ validation.agentType = "navigator" =>
        validation.validatedData["action"] # "[]"

\* C18: every element of the action sequence of a navigator record the
\* pipeline returns is an object with exactly one key; an element that is not
\* an object, or has no or several keys, has been replaced by go_to_url.
C18_OneKeyPerAction ==
    validation # NoResult /\ validation.agentType = "navigator" =>
        validation.validatedData["action"] \notin {"[5]", "[ab]"}

\* C19: fixInvalidJSON applied to a record that satisfies the role's schema
\* returns it with the same keys and values, so that repairing it twice gives
\* what repairing it once gives.
C19_RepairIdempotent ==
    fixed.done /\ ValidateAgainstSchema(rawResponse.data, expectedType) =>
        /\ fixed.once = rawResponse.data
        /\ fixed.twice = fixed.once

C19_Witness ==
    /\ fixed.done
    /\ expectedType = "planner"
    /\ PlannerSchema(rawResponse.data)
    /\ rawResponse.data["final_answer"] = "null"
    /\ rawResponse.data["observation"] = "''"
    /\ fixed.once = rawResponse.data

\* the fields of a role's schema
RoleFields(agentType) ==
    IF agentType = "planner" THEN PlannerFields ELSE NavigatorFields

\* the value v satisfies what the role's schema asks of field f
FieldValid(agentType, f, v) ==
    ValidateAgainstSchema([CreateFallbackResponse(agentType) EXCEPT ![f] = v], agentType)

\* the default fixInvalidJSON has for field f
FieldDefault(agentType, f) == FixInvalidJSON(EmptyObject, agentType)[f]

\* C20: fixInvalidJSON keeps every input field that is valid for the role and
\* replaces every missing or invalid one by the default, so that its output
\* carries no invalid value taken from the input.
C20_OnlyValidFieldsKept ==
    fixed.done =>
        \A f \in RoleFields(expectedType) :
            fixed.once[f] =
                IF FieldValid(expectedType, f, rawResponse.data[f])
                THEN rawResponse.data[f] ELSE FieldDefault(expectedType, f)

\* the parameters the minimal contract of an action type names
ContractParams(actionType) ==
    CASE actionType = "go_to_url" -> {"url"}
      [] actionType = "done" -> {"text", "success"}
      [] actionType = "click_element" -> {"index"}
      [] actionType = "input_text" -> {"index", "text"}
      [] OTHER -> {}

\* the value v is what the contract asks of parameter p
ParamValid(p, v) ==
    CASE p = "url" -> IsString(v) /\ v # "''"
      [] p = "text" -> IsString(v)
      [] p = "success" -> IsBoolean(v)
      [] p = "index" -> IsNumber(v)
      [] OTHER -> v # Absent

\* C21: when validateActions finds an invalid element, fixedActions has the
\* length and order of the input; a valid element is returned unchanged, and
\* an element that fails its contract is replaced by one of the same action
\* type that satisfies the contract and keeps every valid parameter of the
\* original.
C21_ActionsFixedInPlace ==
    actionsResult.done /\ actions.isArray /\ ~actionsResult.valid =>
        /\ Len(actionsResult.fixedActions) = Len(actions.items)
        /\ \A i \in 1..Len(actions.items) :
              LET a == actions.items[i]
                  b == actionsResult.fixedActions[i]
              IN  a.keys = 1 =>
                    IF IsValidAction(a.actionType, a.isObject, a.data) THEN b = a
                    ELSE /\ b.keys = 1
                         /\ b.actionType = a.actionType
                         /\ IsValidAction(b.actionType, b.isObject, b.data)
                         /\ \A p \in ContractParams(a.actionType) :
                               a.isObject /\ ParamValid(p, a.data[p]) =>
                                   b.data[p] = a.data[p]

\* the step is a monitorResponse call
MonitorCalled == monitorCall'.n = monitorCall.n + 1

C23_DisabledBypasses ==
    [][/\ MonitorCalled /\ ~jsonMonitor.monitoringActive =>
            validation' = CreateBypassResult /\ jsonMonitor' = jsonMonitor
       /\ jsonMonitor'.monitoringActive # jsonMonitor.monitoringActive =>
            jsonMonitor' = [jsonMonitor EXCEPT !.monitoringActive = ~@]]_vars

C23_Witness ==
    /\ monitorCall.n >= 2
    /\ ~monitorCall.active
    /\ validation = CreateBypassResult
    /\ jsonMonitor.responseCount = 1
    /\ jsonMonitor.monitoringActive

\* C24: every monitorResponse call returns a result with isValid = true that
\* carries a record; a call in which the validator or an audit raised adds one
\* to the failure counter and returns the emergency record of the hinted
\* role, navigator when the hint is auto.
C24_MonitorNeverFails ==
    /\ [](monitorCall.n > 0 =>
            /\ validation.isValid
            /\ validation.validatedData # Undefined
               \/ validation.correctedResponse # Undefined)
    /\ [][MonitorCalled /\ monitorCall'.raised # "none" =>
            /\ jsonMonitor'.failureCount = jsonMonitor.failureCount + 1
            /\ validation'.agentType =
                 (IF expectedType' = "auto" THEN "navigator" ELSE expectedType')
            /\ validation'.correctedResponse =
                 MonitorEmergencyFallback(validation'.agentType)]_vars

C24_Witness ==
    /\ monitorCall.raised = "audit"
    /\ expectedType = "auto"
    /\ validation.agentType = "navigator"
    /\ validation.isValid
    /\ jsonMonitor.failureCount = 1

\* C25: the result is decided by extraction and validation alone. When
\* extraction fails it is the role's fallback record, returned as valid; when
\* the parsed record fails the schema it is the output of fixInvalidJSON, with
\* correctedResponse set to the same record; when the record fits the schema
\* it is that record, with no correctedResponse. The monitor's audits leave
\* it as the validator returned it.
C25_ThreeOutcomes ==
    validation # NoResult =>
        LET role == IF expectedType = "auto"
                    THEN DetectAgentType(rawResponse, context) ELSE expectedType
            extraction == ExtractJSON(rawResponse)
        IN  /\ validation.isValid
            /\ validation.agentType = role
            /\ ~extraction.success =>
                  validation.validatedData = CreateFallbackResponse(role)
            /\ extraction.success /\ ~ValidateAgainstSchema(extraction.data, role) =>
                  /\ validation.validatedData = FixInvalidJSON(extraction.data, role)
                  /\ validation.correctedResponse = validation.validatedData
            /\ extraction.success /\ ValidateAgainstSchema(extraction.data, role) =>
                  /\ validation.validatedData = extraction.data
                  /\ validation.correctedResponse = Undefined

C25_Witness ==
    /\ monitorCall.n = 1
    /\ modelOutput # NoModelOutput
    /\ ExtractJSON(rawResponse).success
    /\ ~ValidateAgainstSchema(ExtractJSON(rawResponse).data, "planner")
    /\ validation.correctedResponse = validation.validatedData
    /\ jsonMonitor.correctionCount = 1

\* the step is an invoke() call
Invoked == invoked'.n = invoked.n + 1

\* C26: an invoke() whose structured call succeeds with a parsed result
\* returns that result, makes no freeform call, does not call the monitor
\* (its counters stay as they are) and leaves withStructuredOutput true.
C26_StructuredSuccessDirect ==
    [][Invoked /\ agent.withStructuredOutput /\ invoked'.structured = "parsed" =>
          /\ modelOutput' = [from |-> "structured", data |-> StructuredAnswer]
          /\ invoked'.error = NoError
          /\ invoked'.freeformCalls = 0
          /\ invoked'.monitorCalls = 0
          /\ jsonMonitor' = jsonMonitor
          /\ agent'.withStructuredOutput]_vars

C26_Witness ==
    /\ invoked.n = 2
    /\ invoked.structured = "parsed"
    /\ modelOutput = [from |-> "structured", data |-> StructuredAnswer]
    /\ agent.withStructuredOutput
    /\ jsonMonitor.responseCount = 0

\* the structured call failed with an error that is neither a cancellation,
\* nor an authentication error, nor a forbidden error
NonFatalFailure == invoked'.structured \in {"notParsed", "other"}

C29_RoleByHintOrScore ==
    validation # NoResult =>
        LET navigatorHits ==
                NavigatorScore(rawResponse)
                - Count(KeysShown(rawResponse) \cap {"done"})
            plannerHits == PlannerScore(rawResponse)
        IN  /\ validation.agentType \in {"planner", "navigator"}
            /\ expectedType # "auto" => validation.agentType = expectedType
            /\ expectedType = "auto" =>
                  validation.agentType =
                      (IF navigatorHits > plannerHits THEN "navigator" ELSE "planner")
\* the planner call settles with the result o
PlannerReturns(o) == pc = "planner" /\ PlannerSettles(o)

\* C30: on each planner call that returns a result, a signature equal to the
\* stored one raises repetitiveActionCount by exactly one and leaves the stored
\* signature alone, and from a count of 3 on the output is replaced by the
\* synthesized completion; a different signature sets the count to 0 and
\* stores the new signature.
C30_RepetitionStateUpdate ==
    [][\A o \in PlannerResults :
          PlannerReturns(o) =>
              LET cur == PlannerSignature(o) IN
              IF lastPlannerOutput = cur
              THEN /\ repetitiveActionCount' = repetitiveActionCount + 1
                   /\ lastPlannerOutput' = lastPlannerOutput
                   /\ repetitiveActionCount' >= 3 =>
                         latestPlanOutput' = Kept(forceCompletionPlan)
              ELSE /\ repetitiveActionCount' = 0
                   /\ lastPlannerOutput' = cur]_vars

\* C31: when navigate() compares the fingerprints taken before and after a
\* navigator call, repetitiveActionCount becomes 0 if they differ and is left
\* alone if they are equal; the stored planner signature is left alone in both
\* cases, consecutiveFailures is what the navigator's output alone makes it,
\* and with equal fingerprints the run ends in that cycle only because the
\* step budget is spent, the run was cancelled or the failure limit is reached.
C31_ProgressGuardResetsOnChange ==
    [][OutputKept({"ok", "okDone", "errOut"}) =>
          /\ beforeUrl # url => repetitiveActionCount' = 0
          /\ beforeUrl = url => repetitiveActionCount' = repetitiveActionCount
          /\ lastPlannerOutput' = lastPlannerOutput
          /\ consecutiveFailures' =
                (IF navOutput = "errOut" THEN consecutiveFailures + 1 ELSE 0)
          /\ beforeUrl = url /\ pc' = "done" =>
                \/ step' >= options.maxSteps
                \/ stopped
                \/ consecutiveFailures' >= options.maxFailures]_vars

\* navigate() has processed an output behind equal fingerprints and a count
\* the planner had raised is still there
C31_Witness ==
    /\ pc = "planBefore"
    /\ lastNav = "ok"
    /\ repetitiveActionCount = 1
    /\ lastPlannerOutput = "a"

\* C32: every execute() call, a second one on the same executor included,
\* starts with step 0, nSteps 0, consecutiveFailures 0, repetitiveActionCount
\* 0, no stored planner signature and no final answer of an earlier run.
C32_RunStateFreshAtStart ==
    [][runs' = runs + 1 =>
          /\ step' = 0
          /\ nSteps' = 0
          /\ consecutiveFailures' = 0
          /\ repetitiveActionCount' = 0
          /\ lastPlannerOutput' = NoOutput
          /\ finalAnswer' = ""]_vars

\* C34: an execute() call emits TASK_START once, before any planner or
\* navigator call, and nothing else while it runs; it ends with exactly one
\* event out of TASK_OK, TASK_FAIL, TASK_CANCEL and TASK_PAUSE, after which it
\* makes no planner or navigator call.
C34_StartThenOneTerminalEvent ==
    /\ [](pc = "idle" => events = <<>> /\ plannerCalls = 0 /\ navCalls = 0)
    /\ [](Running => events = <<TaskStart>>)
    /\ [](Ended =>
            /\ Len(events) = 2
            /\ events[1] = TaskStart
            /\ events[2].state \in TerminalStates)
    /\ [][Ended /\ Ended' /\ runs' = runs =>
            /\ events' = events
            /\ plannerCalls' = plannerCalls
            /\ navCalls' = navCalls]_vars

C34_Witness ==
    /\ Ended
    /\ events = <<TaskStart, Event("TASK_CANCEL", "exec_task_cancel", "")>>
    /\ plannerCalls >= 1
    /\ navCalls >= 1

\* the agents C35 is about
ManualOnly(ag) ==
    \/ ag.provider \in {"g4f", "llama"}
    \/ ag.modelName \in {"Llama-3.3", "Llama-4", "deepseek-reasoner", "deepseek-r1"}

\* C35: an agent constructed with provider G4F or Llama, with a Llama-3.3 or
\* Llama-4 model name or with model deepseek-reasoner or deepseek-r1 has
\* withStructuredOutput false from its construction on, and each invoke() on it
\* makes no structured call and exactly one freeform call.
C35_ManualOnlyAgents ==
    ManualOnly(agent) =>
        /\ ~agent.withStructuredOutput
        /\ invoked.n > 0 =>
              /\ invoked.structuredCalls = 0
              /\ invoked.freeformCalls = 1

C35_Witness ==
    /\ agent.provider = "openai"
    /\ agent.modelName = "Llama-4"
    /\ invoked.n = MaxInvokes
    /\ invoked.structuredCalls = 0
    /\ invoked.freeformCalls = 1
    /\ invoked.manual = "text"

\* C30 as amended: the same for every planner result whose signature is not
\* the empty string; a result with an empty signature is never taken as equal
\* to the stored one.
C30_NonEmptyRepetitionStateUpdate ==
    [][\A o \in PlannerResults :
          PlannerReturns(o) /\ PlannerSignature(o) # "" =>
              LET cur == PlannerSignature(o) IN
              IF lastPlannerOutput = cur
              THEN /\ repetitiveActionCount' = repetitiveActionCount + 1
                   /\ lastPlannerOutput' = lastPlannerOutput
                   /\ repetitiveActionCount' >= 3 =>
                         latestPlanOutput' = Kept(forceCompletionPlan)
              ELSE /\ repetitiveActionCount' = 0
                   /\ lastPlannerOutput' = cur]_vars

\* the planner repeated an observation, its next_steps being empty, until
\* the count reached 3 and the output was replaced
C30_Witness ==
    /\ repetitiveActionCount = 3
    /\ lastPlannerOutput = "b"
    /\ latestPlanOutput = Kept(forceCompletionPlan)
    /\ Ended

\* C36: a planner result whose next_steps and observation are both empty never
\* counts as a repetition: the call leaves repetitiveActionCount at 0 and
\* returns the planner's own output, however many such results came before; and
\* after an empty stored signature no result is taken as equal to it.
C36_EmptySignatureNeverRepeats ==
    [][\A o \in PlannerResults :
          PlannerReturns(o) =>
              /\ PlannerSignature(o) = "" =>
                    /\ repetitiveActionCount' = 0
                    /\ lastPlannerOutput' = ""
                    /\ latestPlanOutput' = Kept(o)
              /\ lastPlannerOutput = "" =>
                    /\ repetitiveActionCount' = 0
                    /\ lastPlannerOutput' = PlannerSignature(o)
                    /\ latestPlanOutput' = Kept(o)]_vars

\* the fourth planner call of a run has returned a result with an empty
\* signature, the count is 0 and the run goes on to the navigator
C36_Witness ==
    /\ pc = "navBefore"
    /\ plannerCalls = 4
    /\ latestPlanOutput.kind = "result"
    /\ lastPlannerOutput = ""
    /\ repetitiveActionCount = 0
    /\ streak.n = 0

\* what navigate() met when the navigator call of a cycle failed
NavFailures == {"throw", "errOut", "auth", "forbidden", "urlNotAllowed", "conflict"}

C38_FailuresWithinLimit ==
    /\ [](consecutiveFailures >= 0 /\ consecutiveFailures <= options.maxFailures)
    /\ [][navCalls' = navCalls + 1 =>
            consecutiveFailures < options.maxFailures]_vars

AttemptsUpTo(n) == Cardinality({i \in 1..n : g4f.log[i] # "wait"})

\* C40: fetchG4FModels makes at most max(retries, 0) fetches and has returned
\* once the last of them has settled; it waits only after a fetch that failed
\* or brought no models and was not the last attempt, makes no fetch after one
\* that brought a non-empty array, and returns a non-empty list: models of the
\* response if a fetch brought any, the default list otherwise.
C40_FetchRetriesThenDefaults ==
    LET log == g4f.log
        attempts == AttemptsUpTo(Len(log))
    IN  /\ attempts <= (IF g4f.retries > 0 THEN g4f.retries ELSE 0)
        /\ g4f.pc = "fetching" => attempts < g4f.retries
        /\ g4f.pc = "waiting" => attempts < g4f.retries
        /\ \A i \in 1..Len(log) :
              /\ log[i] = "wait" =>
                    /\ i > 1
                    /\ log[i - 1] \in {"error", "empty", "notArray"}
                    /\ AttemptsUpTo(i) < g4f.retries
              /\ log[i] = "models" => i = Len(log) /\ g4f.pc = "returned"
        /\ g4f.pc = "returned" =>
              /\ Len(g4f.result) > 0
              /\ log # <<>> => log[Len(log)] # "wait"
              /\ IF "models" \in Range(log)
                 THEN \E models \in ModelLists :
                         /\ g4f.result \in {models, WorkingModels(models)}
                 ELSE g4f.result = defaultModels

C40_Witness ==
    /\ g4f.pc = "returned"
    /\ g4f.retries = 3
    /\ g4f.log = <<"error", "wait", "empty", "wait", "notArray">>
    /\ g4f.result = defaultModels

\* C33: the callback that receives the terminal event of an executor calls
\* cleanup() on that executor only, and when it sets currentExecutor to null
\* the reference is to that executor (or already null).
C33_CleanupOfEmitterOnly ==
    /\ \A x \in ExecutorIds : executors[x].cleanedBy \subseteq {x}
    /\ \A c \in cleared : c.ref \in {0, c.by}

====
